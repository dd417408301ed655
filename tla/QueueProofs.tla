------------------------------ MODULE QueueProofs ------------------------------
(***************************************************************************)
(* Proofs about QueueResolution for any inventories, requests and limits.  *)
(***************************************************************************)
EXTENDS QueueResolution, FiniteSetTheorems, WellFoundedInduction, TLAPS

-----------------------------------------------------------------------------
(* Naturals, sets and sequences                                            *)

(* Every non-empty set of naturals has a least one.                         *)
LEMMA LeastNatural ==
    ASSUME NEW S \in SUBSET Nat, S # {}
    PROVE  \E m \in S : \A n \in S : m <= n
<1>1. PICK m \in S : \A n \in S : ~(<<n, m>> \in OpToRel(<, Nat))
  BY NatLessThanWellFounded, WFMin
<1>2. ASSUME NEW n \in S PROVE m <= n
  <2>1. ~(n < m)
    BY <1>1 DEF OpToRel
  <2> QED BY <2>1
<1> QED BY <1>2

(* Induction over the naturals, of a set instead of a predicate.            *)
LEMMA NaturalsByInduction ==
    ASSUME NEW S, 0 \in S, \A n \in Nat : n \in S => n + 1 \in S
    PROVE  \A n \in Nat : n \in S
<1> SUFFICES ASSUME Nat \ S # {} PROVE FALSE
  OBVIOUS
<1>1. PICK m \in Nat \ S : \A n \in Nat \ S : m <= n
  BY LeastNatural
<1>2. m # 0 /\ m - 1 \in Nat /\ m - 1 \notin Nat \ S
  BY <1>1
<1>3. (m - 1) + 1 \in S
  BY <1>2
<1> QED BY <1>1, <1>3

(* Appending an element that is not there keeps a sequence injective.       *)
LEMMA OneMore ==
    ASSUME NEW S, NEW s \in Seq(S), NEW x \in S
    PROVE  /\ Append(s, x) \in Seq(S) /\ Range(Append(s, x)) = Range(s) \cup {x}
           /\ IsInjective(s) /\ x \notin Range(s) => IsInjective(Append(s, x))
<1> DEFINE n == Len(s)
           more == Append(s, x)
<1>1. /\ n \in Nat /\ DOMAIN s = 1..n /\ DOMAIN more = 1..n + 1 /\ more \in Seq(S)
      /\ \A k \in 1..n : more[k] = s[k]
      /\ more[n + 1] = x
  OBVIOUS
<1> HIDE DEF more, n
<1>2. \A k \in 1..n + 1 : k \in 1..n \/ k = n + 1
  BY <1>1
<1>3. ASSUME IsInjective(s), x \notin Range(s) PROVE IsInjective(more)
  <2>1. \A k \in 1..n : s[k] # x
    BY <1>1, <1>3 DEF Range
  <2> QED BY <1>1, <1>2, <1>3, <2>1 DEF IsInjective
<1>4. Range(more) = Range(s) \cup {x}
  <2>1. 1..n \subseteq 1..n + 1 /\ n + 1 \in 1..n + 1
    BY <1>1
  <2> QED BY <1>1, <1>2, <2>1 DEF Range
<1> QED BY <1>1, <1>3, <1>4 DEF more

(* What the filter keeps.                                                   *)
LEMMA KeptIs ==
    ASSUME NEW S, NEW seq \in Seq(S), NEW set
    PROVE  /\ Kept(seq, set) \in Seq(S)
           /\ Range(Kept(seq, set)) = Range(seq) \cap set
           /\ IsInjective(seq) => IsInjective(Kept(seq, set))
<1> DEFINE Step(q, n) == IF seq[n] \in set THEN Append(q, seq[n]) ELSE q
           Is(g, m) == g = [n \in 0..m |-> IF n = 0 THEN <<>> ELSE Step(g[n - 1], n)]
           kept == CHOOSE g : Is(g, Len(seq))
           Before(n) == {seq[k] : k \in 1..n}
<1>1. \E g : Is(g, Len(seq))
  <2> DEFINE Exists == {m \in Nat : \E g : Is(g, m)}
  <2>1. 0 \in Exists
    <3>1. Is([n \in 0..0 |-> <<>>], 0)
      OBVIOUS
    <3> QED BY <3>1
  <2>2. ASSUME NEW m \in Nat, m \in Exists PROVE m + 1 \in Exists
    <3>1. PICK g : Is(g, m)
      BY <2>2
    <3> DEFINE h == [n \in 0..m + 1 |-> IF n <= m THEN g[n] ELSE Step(g[m], n)]
    <3>2. \A n \in 0..m : h[n] = g[n]
      OBVIOUS
    <3>3. h[m + 1] = Step(g[m], m + 1)
      OBVIOUS
    <3>4. \A n \in 0..m : g[n] = IF n = 0 THEN <<>> ELSE Step(g[n - 1], n)
      BY <3>1
    <3> HIDE DEF Step
    <3>5. ASSUME NEW n \in 0..m + 1 PROVE h[n] = IF n = 0 THEN <<>> ELSE Step(h[n - 1], n)
      <4>1. CASE n = m + 1
        <5>1. n # 0 /\ n - 1 = m /\ h[n - 1] = g[m]
          BY <3>2, <4>1
        <5> QED BY <3>3, <4>1, <5>1
      <4>2. CASE n \in 0..m
        <5>1. n # 0 => h[n - 1] = g[n - 1]
          BY <3>2, <4>2
        <5> QED BY <3>2, <3>4, <4>2, <5>1
      <4> QED BY <4>1, <4>2
    <3>6. Is(h, m + 1)
      BY <3>5
    <3> HIDE DEF Is, h
    <3> QED BY <3>6
  <2> HIDE DEF Exists
  <2>3. Len(seq) \in Exists
    BY <2>1, <2>2, NaturalsByInduction
  <2> QED BY <2>3 DEF Exists
<1>2. Is(kept, Len(seq))
  BY <1>1
<1>3. Kept(seq, set) = kept[Len(seq)]
  BY DEF Kept
<1> HIDE DEF kept
<1> DEFINE Holds(n) == /\ kept[n] \in Seq(S) /\ Range(kept[n]) = Before(n) \cap set
                       /\ IsInjective(seq) => IsInjective(kept[n])
           Good == {n \in Nat : n <= Len(seq) => Holds(n)}
<1>4. 0 \in Good
  <2>1. kept[0] = <<>>
    BY <1>2
  <2>2. Range(<<>>) = {} /\ IsInjective(<<>>)
    BY DEF Range, IsInjective
  <2>3. Before(0) = {} /\ <<>> \in Seq(S)
    OBVIOUS
  <2> HIDE DEF Before
  <2>4. Holds(0)
    BY <2>1, <2>2, <2>3
  <2> QED BY <2>4
<1>5. ASSUME NEW n \in Nat, n \in Good PROVE n + 1 \in Good
  <2> SUFFICES ASSUME n + 1 <= Len(seq) PROVE Holds(n + 1)
    OBVIOUS
  <2>1. Holds(n)
    BY <1>5
  <2>2. kept[n + 1] = Step(kept[n], n + 1)
    <3>1. n + 1 \in 0..Len(seq) /\ n + 1 # 0 /\ (n + 1) - 1 = n
      OBVIOUS
    <3> HIDE DEF Step
    <3> QED BY <1>2, <3>1
  <2> DEFINE x == seq[n + 1]
  <2>3. x \in S /\ n + 1 \in 1..Len(seq) /\ \A k \in 1..n : k \in 1..Len(seq) /\ k # n + 1
    OBVIOUS
  <2>4. Before(n + 1) = Before(n) \cup {x}
    OBVIOUS
  <2>5. IsInjective(seq) => x \notin Before(n)
    BY <2>3 DEF IsInjective
  <2> HIDE DEF x, Before
  <2>6. CASE x \in set
    <3>1. kept[n + 1] = Append(kept[n], x)
      BY <2>2, <2>6 DEF x
    <3>2. /\ kept[n + 1] \in Seq(S) /\ Range(kept[n + 1]) = Range(kept[n]) \cup {x}
          /\ IsInjective(kept[n]) /\ x \notin Range(kept[n]) => IsInjective(kept[n + 1])
      BY <2>1, <2>3, <3>1, OneMore
    <3> QED BY <2>1, <2>4, <2>5, <2>6, <3>2
  <2>7. CASE x \notin set
    <3>1. kept[n + 1] = kept[n]
      BY <2>2, <2>7 DEF x
    <3> QED BY <2>1, <2>4, <2>7, <3>1
  <2> QED BY <2>6, <2>7
<1> HIDE DEF Good
<1>6. Len(seq) \in Good
  BY <1>4, <1>5, NaturalsByInduction
<1>7. Before(Len(seq)) = Range(seq)
  BY DEF Range
<1> QED BY <1>3, <1>6, <1>7 DEF Good

(* Two sequences in a row.                                                  *)
LEMMA JoinIs ==
    ASSUME NEW S, NEW s \in Seq(S), NEW t \in Seq(S)
    PROVE  /\ s \o t \in Seq(S) /\ Range(s \o t) = Range(s) \cup Range(t)
           /\ IsInjective(s) /\ IsInjective(t) /\ Range(s) \cap Range(t) = {} => IsInjective(s \o t)
<1> DEFINE m == Len(s)
           n == Len(t)
           both == s \o t
<1>1. /\ m \in Nat /\ n \in Nat /\ DOMAIN s = 1..m /\ DOMAIN t = 1..n /\ DOMAIN both = 1..m + n
      /\ \A k \in 1..m : both[k] = s[k]
      /\ \A k \in m + 1..m + n : both[k] = t[k - m]
      /\ both \in Seq(S)
  OBVIOUS
<1> HIDE DEF m, n, both
<1>2. \A k \in 1..m + n : k \in 1..m \/ (k \in m + 1..m + n /\ k - m \in 1..n)
  BY <1>1
<1>3. /\ \A k \in 1..m : k \in 1..m + n
      /\ \A k \in 1..n : k + m \in m + 1..m + n /\ k + m \in 1..m + n /\ (k + m) - m = k
  BY <1>1
<1>4. Range(both) = Range(s) \cup Range(t)
  <2>1. ASSUME NEW k \in 1..m + n PROVE both[k] \in Range(s) \cup Range(t)
    BY <1>1, <1>2 DEF Range
  <2>2. \A k \in 1..m : s[k] \in Range(both)
    BY <1>1, <1>3 DEF Range
  <2>3. \A k \in 1..n : t[k] \in Range(both)
    <3>1. \A k \in 1..n : t[k] = both[k + m]
      BY <1>1, <1>3
    <3> QED BY <1>1, <1>3, <3>1 DEF Range
  <2> QED BY <1>1, <2>1, <2>2, <2>3 DEF Range
<1>5. ASSUME IsInjective(s), IsInjective(t), Range(s) \cap Range(t) = {} PROVE IsInjective(both)
  <2>1. \A i \in 1..m, j \in 1..n : s[i] # t[j]
    BY <1>1, <1>5 DEF Range
  <2>2. ASSUME NEW i \in 1..m + n, NEW j \in 1..m + n, both[i] = both[j] PROVE i = j
    <3>1. CASE i \in 1..m /\ j \in 1..m
      BY <1>1, <1>5, <2>2, <3>1 DEF IsInjective
    <3>2. CASE i \in m + 1..m + n /\ j \in m + 1..m + n
      <4>1. i - m \in 1..n /\ j - m \in 1..n /\ t[i - m] = t[j - m]
        BY <1>1, <2>2, <3>2
      <4>2. i - m = j - m
        BY <1>1, <1>5, <4>1 DEF IsInjective
      <4> QED BY <1>1, <3>2, <4>2
    <3> QED BY <1>1, <1>2, <2>1, <2>2, <3>1, <3>2
  <2> QED BY <1>1, <2>2 DEF IsInjective
<1> QED BY <1>1, <1>4, <1>5 DEF both

-----------------------------------------------------------------------------
(* Requests and their order                                                *)

Request == [caller_id : Nat, strength : STRING, required_flags : SUBSET Flags,
            allowed : Seq(Nat), preferred : Seq(Nat), priority : Nat,
            alias_policy : STRING, alias_target : Nat]

\* The requests that normalization and the input limits let through.
Normalized ==
    /\ IsFiniteSet(Ids) /\ Ids \subseteq Nat \ {NoName}
    /\ \A c \in Ids : /\ request[c] \in Request /\ request[c].caller_id = c
                     /\ ~Malformed(request[c])
                     /\ Target(c) \in Ids \cup {NoName}

TargetsFirst ==
    \A k \in DOMAIN order :
        Target(order[k]) # NoName => \E j \in 1..k - 1 : order[j] = Target(order[k])

\* While the requests are ordered.
RelationsInv ==
    /\ marks \in [Ids -> {0, 1, 2}]
    /\ visiting \in Seq(Ids) /\ IsInjective(visiting)
    /\ \A k \in DOMAIN visiting : marks[visiting[k]] = 1
    /\ order \in Seq(Ids) /\ IsInjective(order)
    /\ Range(order) = {c \in Ids : marks[c] = 2}
    /\ TargetsFirst

\* Afterwards.
OrderInv == order \in Seq(Ids) /\ IsInjective(order) /\ Range(order) = Ids /\ TargetsFirst

(* Without a priority, a name or an alias target that a request must not    *)
(* have: what it asks for is of one of the kinds the search knows.          *)
LEMMA WellFormed ==
    ASSUME Normalized, NEW c \in Ids
    PROVE  /\ request[c] \in Request
           /\ request[c].strength \in Strengths /\ request[c].alias_policy \in AliasPolicies
           /\ IsInjective(request[c].preferred)
           /\ Target(c) # c
           /\ request[c].alias_policy # "forbid_alias" <=> Target(c) \in Ids
BY DEF Normalized, Malformed, Target, NoName

LEMMA InputIsNormalized ==
    ASSUME input \in Inputs, phase = "input", ReadInput, phase' = "relations"
    PROVE  Normalized' /\ marks' = [c \in Ids' |-> 0]
<1>1. /\ InputError = "none" /\ marks' = [c \in InputIds |-> 0]
      /\ request' = [c \in InputIds |-> input[CHOOSE k \in DOMAIN input : input[k].caller_id = c]]
  BY DEF ReadInput, Fail
<1>2. /\ \A k \in DOMAIN input : ~Malformed(input[k]) /\ input[k].alias_target \in InputIds \cup {NoName}
  BY <1>1 DEF InputError, Contradictory
<1>3. input \in Seq(Request)
  BY QueueAssumption DEF Request
<1>4. DOMAIN input = 1..Len(input) /\ Len(input) \in Nat /\ \A k \in DOMAIN input : input[k] \in Request
  BY <1>3
<1>5. IsFiniteSet(InputIds)
  <2> DEFINE id == [k \in DOMAIN input |-> input[k].caller_id]
  <2>1. id \in Surjection(DOMAIN input, InputIds)
    BY DEF Surjection, InputIds
  <2>2. IsFiniteSet(DOMAIN input)
    BY <1>4, FS_Interval
  <2> QED BY <2>1, <2>2, FS_Surjection
<1>6. DOMAIN request' = InputIds
  BY <1>1
<1>7. ASSUME NEW c \in InputIds
      PROVE  /\ c \in Nat \ {NoName}
             /\ request'[c] \in Request /\ request'[c].caller_id = c
             /\ ~Malformed(request'[c])
             /\ request'[c].alias_target \in InputIds \cup {NoName}
  <2> DEFINE m == CHOOSE k \in DOMAIN input : input[k].caller_id = c
  <2>1. m \in DOMAIN input /\ input[m].caller_id = c
    BY DEF InputIds
  <2>2. request'[c] = input[m]
    BY <1>1
  <2> HIDE DEF m
  <2>3. input[m] \in Request /\ ~Malformed(input[m]) /\ input[m].alias_target \in InputIds \cup {NoName}
    BY <1>2, <1>4, <2>1
  <2>4. c # NoName
    BY <2>1, <2>3 DEF Malformed
  <2>5. c \in Nat
    BY <2>1, <2>3 DEF Request
  <2> QED BY <2>1, <2>2, <2>3, <2>4, <2>5
<1> QED
  <2>1. \A c : Malformed(request'[c]) <=> Malformed(request[c])'
    BY DEF Malformed
  <2> QED BY <1>1, <1>5, <1>6, <1>7, <2>1 DEF Normalized, Ids, Target

-----------------------------------------------------------------------------
(* The requests are ordered                                                *)

(* A request is visited, and then ordered, at most once, after its target.  *)
LEMMA RelationsStep ==
    ASSUME Normalized, RelationsInv, Relations, UNCHANGED request
    PROVE  RelationsInv'
<1> DEFINE n == Len(visiting)
<1>1. /\ n = Len(visiting) /\ n \in Nat /\ DOMAIN visiting = 1..n /\ visiting \in Seq(Ids)
      /\ \A k \in DOMAIN visiting : visiting[k] \in Ids /\ marks[visiting[k]] = 1
      /\ visiting # <<>> => n \in 1..n /\ Visited \in Ids /\ marks[Visited] = 1
  BY DEF RelationsInv, Visited
<1> HIDE DEF n
<1>2. Ids' = Ids /\ \A c : Target(c)' = Target(c)
  BY DEF Ids, Target
<1> DEFINE Grows(c) == /\ visiting' = Append(visiting, c) /\ marks' = [marks EXCEPT ![c] = 1]
                       /\ UNCHANGED order
<1>3. ASSUME NEW c \in Ids, marks[c] = 0, Grows(c) PROVE RelationsInv'
  <2>1. c \notin Range(visiting)
    BY <1>1, <1>3 DEF RelationsInv, Range
  <2>2. /\ visiting' \in Seq(Ids) /\ IsInjective(visiting') /\ Range(visiting') = Range(visiting) \cup {c}
    BY <1>1, <1>3, <2>1, OneMore DEF RelationsInv
  <2>3. /\ marks' \in [Ids -> {0, 1, 2}] /\ marks'[c] = 1
        /\ \A d \in Ids \ {c} : marks'[d] = marks[d]
    BY <1>3 DEF RelationsInv
  <2>4. \A k \in DOMAIN visiting' : marks'[visiting'[k]] = 1
    <3>1. \A d \in Range(visiting') : marks'[d] = 1
      <4>1. \A d \in Range(visiting) : d \in Ids /\ marks[d] = 1
        BY <1>1 DEF RelationsInv, Range
      <4> QED BY <2>2, <2>3, <4>1
    <3> QED BY <3>1 DEF Range
  <2>5. {d \in Ids : marks'[d] = 2} = {d \in Ids : marks[d] = 2}
    BY <1>3, <2>3
  <2>6. TargetsFirst'
    BY <1>2, <1>3 DEF RelationsInv, TargetsFirst
  <2> QED BY <1>2, <1>3, <2>2, <2>3, <2>4, <2>5, <2>6 DEF RelationsInv
<1>4. CASE VisitRoot
  <2>1. PICK c \in Ids : marks[c] = 0 /\ visiting' = <<c>> /\ marks' = [marks EXCEPT ![c] = 1]
    BY <1>4 DEF VisitRoot
  <2>2. visiting' = Append(visiting, c) /\ UNCHANGED order
    BY <1>4, <2>1 DEF VisitRoot
  <2> QED BY <1>3, <2>1, <2>2
<1>5. CASE VisitTarget
  <2>1. Target(Visited) \in Ids /\ marks[Target(Visited)] = 0
    BY <1>1, <1>5 DEF VisitTarget, Normalized
  <2> QED BY <1>3, <1>5, <2>1 DEF VisitTarget
<1>6. CASE CycleFound
  BY <1>2, <1>6 DEF CycleFound, Fail, relationVars, RelationsInv, TargetsFirst
<1>7. CASE AppendToOrder
  <2>1. /\ visiting # <<>> /\ marks' = [marks EXCEPT ![Visited] = 2] /\ order' = Append(order, Visited)
        /\ visiting' = SubSeq(visiting, 1, n - 1)
        /\ Target(Visited) # NoName => marks[Target(Visited)] = 2
    BY <1>1, <1>7 DEF AppendToOrder
  <2>2. /\ n \in Nat \ {0} /\ Visited \in Ids /\ marks[Visited] = 1 /\ Visited = visiting[n]
    BY <1>1, <2>1 DEF Visited
  <2>3. /\ marks' \in [Ids -> {0, 1, 2}] /\ marks'[Visited] = 2
        /\ \A d \in Ids \ {Visited} : marks'[d] = marks[d]
    BY <2>1, <2>2 DEF RelationsInv
  <2>4. /\ visiting' \in Seq(Ids) /\ DOMAIN visiting' = 1..n - 1
        /\ \A k \in 1..n - 1 : visiting'[k] = visiting[k] /\ k \in 1..n /\ k # n
    BY <1>1, <2>1, <2>2
  <2>5. IsInjective(visiting')
    BY <1>1, <2>4 DEF RelationsInv, IsInjective
  <2>6. \A k \in DOMAIN visiting' : marks'[visiting'[k]] = 1
    <3>1. \A k \in 1..n - 1 : /\ visiting[k] # Visited /\ visiting[k] \in Ids
                              /\ marks[visiting[k]] = 1
      <4>1. n \in DOMAIN visiting /\ \A k \in 1..n - 1 : k \in DOMAIN visiting /\ k # n
        BY <1>1, <2>2, <2>4
      <4>2. \A k \in 1..n - 1 : visiting[k] # Visited
        BY <2>2, <4>1 DEF RelationsInv, IsInjective
      <4>3. \A k \in 1..n - 1 : visiting[k] \in Ids /\ marks[visiting[k]] = 1
        BY <1>1, <4>1
      <4> QED BY <4>2, <4>3
    <3> QED BY <2>3, <2>4, <3>1
  <2>7. Visited \notin Range(order) /\ order \in Seq(Ids)
    BY <2>2 DEF RelationsInv
  <2>8. order' \in Seq(Ids) /\ IsInjective(order') /\ Range(order') = Range(order) \cup {Visited}
    BY <2>1, <2>2, <2>7, OneMore DEF RelationsInv
  <2>9. Range(order') = {d \in Ids : marks'[d] = 2}
    BY <2>2, <2>3, <2>8 DEF RelationsInv
  <2>10. TargetsFirst'
    <3>1. /\ DOMAIN order = 1..Len(order) /\ Len(order) \in Nat /\ DOMAIN order' = 1..Len(order) + 1
          /\ \A k \in 1..Len(order) : order'[k] = order[k]
          /\ order'[Len(order) + 1] = Visited
      BY <2>1, <2>7
    <3>2. \A k \in 1..Len(order) : k \in DOMAIN order /\ \A j \in 1..k - 1 : j \in 1..Len(order)
      BY <3>1
    <3>3. ASSUME NEW k \in 1..Len(order), Target(order[k]) # NoName
          PROVE  \E j \in 1..k - 1 : order'[j] = Target(order[k])
      BY <3>1, <3>2, <3>3 DEF RelationsInv, TargetsFirst
    <3>4. ASSUME Target(Visited) # NoName
          PROVE  \E j \in 1..Len(order) : order'[j] = Target(Visited)
      <4>1. Target(Visited) \in Range(order)
        BY <2>1, <2>2, <3>4 DEF RelationsInv, Normalized
      <4> QED BY <3>1, <4>1 DEF Range
    <3>5. (Len(order) + 1) - 1 = Len(order) /\ \A k \in 1..Len(order) + 1 : k \in 1..Len(order) \/ k = Len(order) + 1
      BY <3>1
    <3>6. ASSUME NEW k \in DOMAIN order', Target(order'[k]) # NoName
          PROVE  \E j \in 1..k - 1 : order'[j] = Target(order'[k])
      <4>1. CASE k \in 1..Len(order)
        BY <3>1, <3>3, <3>6, <4>1
      <4>2. CASE k = Len(order) + 1
        BY <3>1, <3>4, <3>5, <3>6, <4>2
      <4> QED BY <3>1, <3>5, <4>1, <4>2
    <3> QED BY <1>2, <3>6 DEF TargetsFirst
  <2> QED BY <1>2, <2>3, <2>4, <2>5, <2>6, <2>8, <2>9, <2>10 DEF RelationsInv
<1> QED BY <1>4, <1>5, <1>6, <1>7 DEF Relations

-----------------------------------------------------------------------------
(* The search: what is retained, what is still to come                     *)

Choice == [accepted : BOOLEAN, aliased : BOOLEAN, family : Nat, queue : Nat]

\* What an allocation may choose for a request.
Options == {x \in Choice : \/ x = Declined
                           \/ x.accepted /\ x.family \in Families /\ x.queue < families[x.family].count}

Items == [do : {"leaf", "alias", "inspect", "take", "decline"}, family : Nat]

\* The requests that hold a queue of family f of their own.
Holding(s, f) == {c \in Ids : Distinct(s[c]) /\ s[c].family = f}

\* Trying item can come to choose x.
Leads(item, x) ==
    CASE item.do = "leaf" -> TRUE
      [] item.do = "alias" -> x.accepted /\ x.aliased
      [] item.do = "inspect" -> Distinct(x)
      [] item.do = "take" -> Distinct(x) /\ x.family = item.family
      [] item.do = "decline" -> ~x.accepted
LeadsAny(items, x) == \E k \in DOMAIN items : Leads(items[k], x)

Exclusive(items) ==
    \A k, m \in DOMAIN items : k # m => \A x \in Options : ~(Leads(items[k], x) /\ Leads(items[m], x))

\* item is one of those request c allows.
Permitted(item, c) ==
    /\ item.do # "leaf"
    /\ item.do = "alias" => request[c].alias_policy # "forbid_alias"
    /\ item.do \in {"inspect", "take"} => request[c].alias_policy # "require_alias"
    /\ item.do = "take" => Suits(item.family, request[c])
    /\ item.do = "decline" => request[c].strength = "optional"

\* item belongs on level l.
Sensible(item, l) == IF l > Len(order) THEN item = Leaf ELSE Permitted(item, order[l])

\* s agrees with the choices made above level l.
Follows(s, l) == \A j \in 1..l - 1 : s[order[j]] = choices[order[j]]

\* The search has still to come to the complete allocation s.
Waiting(s) == \E l \in 1..level : Follows(s, l) /\ LeadsAny(pending[l], s[order[l]])

SearchTypes ==
    /\ limit \in BOOLEAN
    /\ level \in 1..Len(order) + 1
    /\ pending \in [1..Len(order) + 1 -> Seq(Items)]
    /\ choices \in [Ids -> Options]
    /\ used = [f \in Families |-> Cardinality(Holding(choices, f))]

\* The choices above the level are legal, below it nothing is chosen.
PathInv ==
    /\ \A j \in 1..level - 1 : Legal(choices, order[j])
    /\ \A j \in level..Len(order) : choices[order[j]] = Declined

\* What is left on the levels excludes each other, and the choice made there.
TasksInv ==
    /\ \A l \in 1..level : \A k \in DOMAIN pending[l] : Sensible(pending[l][k], l)
    /\ \A l \in 1..level : Exclusive(pending[l])
    /\ \A l \in 1..level - 1 : ~LeadsAny(pending[l], choices[order[l]])

\* Every complete allocation is retained or still to come, and not both.
RetainedInv ==
    /\ solutions \in Seq(Complete) /\ IsInjective(solutions)
    /\ \A s \in Range(solutions) : ~Waiting(s)
    /\ ~limit => \A s \in Complete : s \in Range(solutions) \/ Waiting(s)

SearchInv == SearchTypes /\ PathInv /\ TasksInv /\ RetainedInv


(* What is left after the first item.                                       *)
LEMMA RestIs ==
    ASSUME NEW items \in Seq(Items), items # <<>>
    PROVE  /\ Head(items) \in Items /\ Head(items) = items[1] /\ 1 \in DOMAIN items
           /\ Tail(items) \in Seq(Items)
           /\ \A k \in DOMAIN Tail(items) : k + 1 \in DOMAIN items /\ Tail(items)[k] = items[k + 1]
           /\ \A x : LeadsAny(items, x) <=> Leads(Head(items), x) \/ LeadsAny(Tail(items), x)
           /\ Exclusive(items) => /\ Exclusive(Tail(items))
                                  /\ \A x \in Options :
                                       Leads(Head(items), x) => ~LeadsAny(Tail(items), x)
<1>1. /\ Head(items) \in Items /\ Head(items) = items[1] /\ 1 \in DOMAIN items
      /\ Tail(items) \in Seq(Items) /\ DOMAIN items = 1..Len(items) /\ Len(items) \in Nat
      /\ DOMAIN Tail(items) = 1..Len(items) - 1
      /\ \A k \in 1..Len(items) - 1 : Tail(items)[k] = items[k + 1]
  OBVIOUS
<1> DEFINE n == Len(items)
           rest == Tail(items)
           first == Head(items)
<1> HIDE DEF n, rest, first
<1>2. /\ n \in Nat /\ DOMAIN items = 1..n /\ DOMAIN rest = 1..n - 1 /\ first = items[1] /\ 1 \in 1..n
      /\ \A k \in 1..n - 1 : rest[k] = items[k + 1]
  BY <1>1 DEF n, rest, first
<1>3. /\ \A k \in 1..n - 1 : k + 1 \in 1..n /\ k + 1 # 1
      /\ \A k, m \in 1..n - 1 : k + 1 = m + 1 => k = m
      /\ \A k \in 1..n : k = 1 \/ \E m \in 1..n - 1 : k = m + 1
  <2>1. ASSUME NEW k \in 1..n, k # 1 PROVE k - 1 \in 1..n - 1 /\ k = (k - 1) + 1
    BY <1>2, <2>1
  <2> QED BY <1>2, <2>1
<1>4. ASSUME NEW x PROVE LeadsAny(items, x) <=> Leads(first, x) \/ LeadsAny(rest, x)
  <2>1. ASSUME LeadsAny(items, x) PROVE Leads(first, x) \/ LeadsAny(rest, x)
    <3>1. PICK k \in 1..n : Leads(items[k], x)
      BY <1>2, <2>1 DEF LeadsAny
    <3>2. CASE k = 1
      BY <1>2, <3>1, <3>2
    <3>3. ASSUME NEW m \in 1..n - 1, k = m + 1 PROVE LeadsAny(rest, x)
      <4>1. Leads(rest[m], x)
        BY <1>2, <3>1, <3>3
      <4> QED BY <1>2, <4>1 DEF LeadsAny
    <3> QED BY <1>3, <3>2, <3>3
  <2>2. ASSUME Leads(first, x) PROVE LeadsAny(items, x)
    BY <1>2, <2>2 DEF LeadsAny
  <2>3. ASSUME LeadsAny(rest, x) PROVE LeadsAny(items, x)
    <3>1. PICK k \in 1..n - 1 : Leads(rest[k], x)
      BY <1>2, <2>3 DEF LeadsAny
    <3> QED BY <1>2, <1>3, <3>1 DEF LeadsAny
  <2> QED BY <2>1, <2>2, <2>3
<1>5. ASSUME Exclusive(items)
      PROVE  Exclusive(rest) /\ \A x \in Options : Leads(first, x) => ~LeadsAny(rest, x)
  <2>1. \A k, m \in 1..n : k # m => \A x \in Options : ~(Leads(items[k], x) /\ Leads(items[m], x))
    BY <1>2, <1>5 DEF Exclusive
  <2>2. Exclusive(rest)
    <3>1. ASSUME NEW k \in 1..n - 1, NEW m \in 1..n - 1, k # m, NEW x \in Options
          PROVE  ~(Leads(rest[k], x) /\ Leads(rest[m], x))
      <4>1. rest[k] = items[k + 1] /\ rest[m] = items[m + 1] /\ k + 1 # m + 1
        BY <1>2, <1>3, <3>1
      <4> QED BY <1>3, <2>1, <4>1
    <3> QED BY <1>2, <3>1 DEF Exclusive
  <2>3. ASSUME NEW x \in Options, Leads(first, x), NEW k \in 1..n - 1, Leads(rest[k], x)
        PROVE  FALSE
    BY <1>2, <1>3, <2>1, <2>3
  <2> QED BY <1>2, <2>2, <2>3 DEF LeadsAny
<1> QED BY <1>1, <1>2, <1>3, <1>4, <1>5 DEF n, rest, first

LEMMA FamiliesAre ==
    ASSUME families \in Inventories
    PROVE  /\ IsFiniteSet(Families) /\ Families \subseteq Nat
           /\ Cardinality(Families) \in Nat /\ Families = 0..Cardinality(Families) - 1
           /\ \A f \in Families : families[f].count \in Nat
<1>1. /\ IsFiniteSet(Families) /\ Families = 0..Cardinality(Families) - 1
      /\ families \in [Families -> [flags : SUBSET Flags, count : Nat]]
  BY QueueAssumption DEF Families
<1>2. Cardinality(Families) \in Nat
  BY <1>1, FS_CardinalityType
<1> QED BY <1>1, <1>2

LEMMA OrderIs ==
    ASSUME OrderInv
    PROVE  /\ Len(order) \in Nat /\ DOMAIN order = 1..Len(order)
           /\ \A j \in 1..Len(order) : order[j] \in Ids /\ Position(order, order[j]) = j
           /\ \A c \in Ids : \E j \in 1..Len(order) : c = order[j]
           /\ \A i, j \in 1..Len(order) : order[i] = order[j] => i = j
<1>1. /\ Len(order) \in Nat /\ DOMAIN order = 1..Len(order)
      /\ \A j \in 1..Len(order) : order[j] \in Ids
  BY DEF OrderInv
<1>2. \A i, j \in 1..Len(order) : order[i] = order[j] => i = j
  BY <1>1 DEF OrderInv, IsInjective
<1>3. \A c \in Ids : \E j \in 1..Len(order) : c = order[j]
  BY <1>1 DEF OrderInv, Range
<1>4. ASSUME NEW j \in 1..Len(order) PROVE Position(order, order[j]) = j
  BY <1>1, <1>2 DEF Position
<1> QED BY <1>1, <1>2, <1>3, <1>4

\* The requests before the j-th that hold a queue of family f of their own.
Earlier(s, j, f) == {d \in Ids : Distinct(s[d]) /\ s[d].family = f /\ \E i \in 1..j - 1 : d = order[i]}

(* Legal, by positions.                                                     *)
LEMMA LegalIs ==
    ASSUME OrderInv, NEW j \in 1..Len(order), NEW s
    PROVE  LET c == order[j] IN
           Legal(s, c) <=>
             IF ~s[c].accepted THEN request[c].strength = "optional"
             ELSE /\ Suits(s[c].family, request[c])
                  /\ IF s[c].aliased
                       THEN /\ request[c].alias_policy # "forbid_alias"
                            /\ SameCoordinate(s[c], s[Target(c)])
                            /\ request[Target(c)].priority = request[c].priority
                       ELSE /\ request[c].alias_policy # "require_alias"
                            /\ s[c].queue = Cardinality(Earlier(s, j, s[c].family))
                            /\ s[c].queue < families[s[c].family].count
<1> DEFINE c == order[j]
           before == {d \in Ids : /\ Position(order, d) < Position(order, c)
                                  /\ Distinct(s[d]) /\ s[d].family = s[c].family}
<1>1. before = Earlier(s, j, s[c].family)
  <2>1. ASSUME NEW d \in Ids
        PROVE  Position(order, d) < Position(order, c) <=> \E i \in 1..j - 1 : d = order[i]
    <3>1. PICK k \in 1..Len(order) : d = order[k]
      BY OrderIs
    <3>2. Position(order, d) = k /\ Position(order, c) = j /\ Len(order) \in Nat
      BY <3>1, OrderIs
    <3>3. \A i \in 1..j - 1 : i \in 1..Len(order)
      BY <3>2
    <3>4. k < j => k \in 1..j - 1
      BY <3>2
    <3>5. ASSUME NEW i \in 1..j - 1, d = order[i] PROVE k < j
      BY <3>1, <3>2, <3>3, <3>5, OrderIs
    <3> QED BY <3>1, <3>2, <3>4, <3>5
  <2> QED BY <2>1 DEF Earlier
<1> HIDE DEF before
<1>2. Legal(s, c) <=>
             IF ~s[c].accepted THEN request[c].strength = "optional"
             ELSE /\ Suits(s[c].family, request[c])
                  /\ IF s[c].aliased
                       THEN /\ request[c].alias_policy # "forbid_alias"
                            /\ SameCoordinate(s[c], s[Target(c)])
                            /\ request[Target(c)].priority = request[c].priority
                       ELSE /\ request[c].alias_policy # "require_alias"
                            /\ s[c].queue = Cardinality(before)
                            /\ s[c].queue < families[s[c].family].count
  BY DEF Legal, before
<1> QED BY <1>1, <1>2

(* Whether the j-th choice is legal depends on the first j choices alone.   *)
LEMMA LegalDepends ==
    ASSUME Normalized, OrderInv, NEW j \in 1..Len(order), NEW s, NEW t,
           \A i \in 1..j : s[order[i]] = t[order[i]]
    PROVE  Legal(s, order[j]) <=> Legal(t, order[j])
<1> DEFINE c == order[j]
<1>1. c \in Ids /\ s[c] = t[c] /\ \A i \in 1..j - 1 : i \in 1..j
  BY OrderIs
<1>2. \A f : Earlier(s, j, f) = Earlier(t, j, f)
  BY <1>1 DEF Earlier
<1>3. request[c].alias_policy # "forbid_alias" => s[Target(c)] = t[Target(c)]
  <2> SUFFICES ASSUME request[c].alias_policy # "forbid_alias"
               PROVE  s[Target(c)] = t[Target(c)]
    OBVIOUS
  <2>1. Target(c) # NoName /\ j \in DOMAIN order
    BY <1>1, WellFormed, OrderIs DEF Normalized
  <2>2. PICK i \in 1..j - 1 : order[i] = Target(c)
    BY <2>1 DEF OrderInv, TargetsFirst
  <2> QED BY <1>1, <2>2
<1> HIDE DEF c
<1>4. Legal(s, c) <=> Legal(t, c)
  <2> DEFINE Body(x, target, n) ==
             IF ~x.accepted THEN request[c].strength = "optional"
             ELSE /\ Suits(x.family, request[c])
                  /\ IF x.aliased
                       THEN /\ request[c].alias_policy # "forbid_alias"
                            /\ SameCoordinate(x, target)
                            /\ request[Target(c)].priority = request[c].priority
                       ELSE /\ request[c].alias_policy # "require_alias"
                            /\ x.queue = n
                            /\ x.queue < families[x.family].count
  <2>1. Legal(s, c) <=> Body(s[c], s[Target(c)], Cardinality(Earlier(s, j, s[c].family)))
    BY LegalIs DEF c
  <2>2. Legal(t, c) <=> Body(t[c], t[Target(c)], Cardinality(Earlier(t, j, t[c].family)))
    BY LegalIs DEF c
  <2>3. CASE request[c].alias_policy # "forbid_alias"
    <3> HIDE DEF Body
    <3> QED BY <1>1, <1>2, <1>3, <2>1, <2>2, <2>3
  <2>4. CASE request[c].alias_policy = "forbid_alias"
    <3>1. Earlier(s, j, s[c].family) = Earlier(t, j, t[c].family)
      BY <1>1, <1>2
    <3> QED BY <1>1, <2>1, <2>2, <2>4, <3>1
  <2> QED BY <2>3, <2>4
<1> QED BY <1>4 DEF c


\* What the search relies on throughout.
Searched == families \in Inventories /\ Normalized /\ OrderInv

\* Choosing x for the current request is legal.
MayChoose(x) == Legal([choices EXCEPT ![Current] = x], Current)

(* On the current level nothing is chosen yet for this and later requests:  *)
(* the queues in use are those of the earlier requests.                     *)
LEMMA UsedEarlier ==
    ASSUME Searched, SearchTypes, PathInv, level <= Len(order), NEW x \in Options, NEW f \in Families
    PROVE  /\ used[f] \in Nat
           /\ used[f] = Cardinality(Earlier([choices EXCEPT ![Current] = x], level, f))
<1>1. level \in 1..Len(order) /\ level \in Nat /\ Current \in Ids
  BY OrderIs DEF SearchTypes, Searched, Current
<1>2. IsFiniteSet(Holding(choices, f))
  BY FS_Subset DEF Holding, Searched, Normalized
<1>3. used[f] \in Nat
  BY <1>2, FS_CardinalityType DEF SearchTypes
<1>4. ASSUME NEW d \in Ids
      PROVE  Distinct(choices[d]) <=>
               /\ Distinct([choices EXCEPT ![Current] = x][d])
               /\ \E i \in 1..level - 1 : d = order[i]
  <2>1. PICK k \in 1..Len(order) : d = order[k]
    BY OrderIs DEF Searched
  <2>2. CASE k < level
    <3>1. k \in 1..level - 1
      BY <1>1, <2>2
    <3>2. d # Current
      BY <1>1, <2>1, <2>2, OrderIs DEF Searched, Current
    <3> QED BY <2>1, <3>1, <3>2 DEF SearchTypes
  <2>3. CASE k >= level
    <3>1. choices[d] = Declined
      <4>1. k \in level..Len(order)
        BY <1>1, <2>3, OrderIs DEF Searched
      <4> QED BY <2>1, <4>1 DEF PathInv
    <3>2. \A i \in 1..level - 1 : i \in 1..Len(order) /\ i # k
      BY <1>1, <2>3, OrderIs DEF Searched
    <3>3. \A i \in 1..level - 1 : d # order[i]
      BY <2>1, <3>2, OrderIs DEF Searched
    <3>4. ~Distinct(choices[d])
      BY <3>1 DEF Distinct, Declined
    <3> QED BY <3>3, <3>4
  <2> QED BY <1>1, <2>2, <2>3, OrderIs DEF Searched
<1>5. ASSUME NEW d \in Ids, Distinct(choices[d])
      PROVE  [choices EXCEPT ![Current] = x][d] = choices[d]
  <2>1. choices[Current] = Declined
    <3>1. level \in level..Len(order)
      BY <1>1, OrderIs DEF Searched
    <3> QED BY <3>1 DEF PathInv, Current
  <2>2. d # Current
    BY <1>5, <2>1 DEF Distinct, Declined
  <2> QED BY <2>2 DEF SearchTypes
<1>6. Holding(choices, f) = Earlier([choices EXCEPT ![Current] = x], level, f)
  BY <1>4, <1>5 DEF Holding, Earlier
<1> QED BY <1>3, <1>6 DEF SearchTypes

(* What may be chosen next: at most one choice for each item to try.        *)
LEMMA LegalNext ==
    ASSUME Searched, SearchTypes, PathInv, level <= Len(order), NEW x \in Options
    PROVE  LET c == Current IN
           MayChoose(x) <=>
             IF ~x.accepted THEN request[c].strength = "optional"
             ELSE IF x.aliased
                    THEN /\ request[c].alias_policy # "forbid_alias"
                         /\ CanAlias(c)
                         /\ x = [choices[Target(c)] EXCEPT !.aliased = TRUE]
                    ELSE /\ request[c].alias_policy # "require_alias"
                         /\ Suits(x.family, request[c]) /\ HasFreeQueue(x.family)
                         /\ x.queue = used[x.family]
<1> DEFINE c == Current
           s == [choices EXCEPT ![Current] = x]
           t == choices[Target(c)]
<1>1. level \in 1..Len(order) /\ c = order[level] /\ c \in Ids
  BY OrderIs DEF SearchTypes, Searched, Current
<1>2. s[c] = x
  BY <1>1 DEF SearchTypes
<1>3. MayChoose(x) <=>
             IF ~x.accepted THEN request[c].strength = "optional"
             ELSE /\ Suits(x.family, request[c])
                  /\ IF x.aliased
                       THEN /\ request[c].alias_policy # "forbid_alias"
                            /\ SameCoordinate(x, s[Target(c)])
                            /\ request[Target(c)].priority = request[c].priority
                       ELSE /\ request[c].alias_policy # "require_alias"
                            /\ x.queue = Cardinality(Earlier(s, level, x.family))
                            /\ x.queue < families[x.family].count
  <2> HIDE DEF s
  <2>1. MayChoose(x) <=> Legal(s, order[level])
    BY <1>1 DEF MayChoose, s
  <2> QED BY <1>1, <1>2, <2>1, LegalIs DEF Searched
<1>4. x.accepted => x.family \in Families
  BY DEF Options, Declined
<1> HIDE DEF s
<1>5. CASE ~x.accepted
  BY <1>3, <1>5
<1>6. CASE x.accepted /\ ~x.aliased
  <2>1. used[x.family] = Cardinality(Earlier(s, level, x.family))
    BY <1>4, <1>6, UsedEarlier DEF s
  <2>2. x.queue = used[x.family] => (x.queue < families[x.family].count <=> HasFreeQueue(x.family))
    BY <1>4, <1>6 DEF HasFreeQueue
  <2> QED BY <1>3, <1>6, <2>1, <2>2
<1>7. CASE x.accepted /\ x.aliased
  <2>1. CASE request[c].alias_policy = "forbid_alias"
    BY <1>3, <1>7, <2>1
  <2>2. CASE request[c].alias_policy # "forbid_alias"
    <3>1. Target(c) \in Ids /\ Target(c) # c /\ Target(c) # NoName
      BY <1>1, <2>2, WellFormed DEF Searched, Normalized
    <3>2. s[Target(c)] = t /\ t \in Options
      BY <1>1, <3>1 DEF SearchTypes, s
    <3>3. t \in Choice /\ x \in Choice
      BY <3>2 DEF Options
    <3>4. SameCoordinate(x, t) <=> t.accepted /\ x = [t EXCEPT !.aliased = TRUE]
      <4>1. ASSUME SameCoordinate(x, t) PROVE t.accepted /\ x = [t EXCEPT !.aliased = TRUE]
        BY <1>7, <3>3, <4>1 DEF SameCoordinate, Choice
      <4>2. ASSUME t.accepted, x = [t EXCEPT !.aliased = TRUE] PROVE SameCoordinate(x, t)
        BY <1>7, <3>3, <4>2 DEF SameCoordinate, Choice
      <4> QED BY <4>1, <4>2
    <3>5. x = [t EXCEPT !.aliased = TRUE] => x.family = t.family
      BY <3>3 DEF Choice
    <3> QED BY <1>3, <1>7, <3>1, <3>2, <3>4, <3>5, <2>2 DEF CanAlias
  <2> QED BY <2>1, <2>2
<1> QED BY <1>5, <1>6, <1>7


LEMMA CompleteIs ==
    ASSUME families \in Inventories, NEW s
    PROVE  s \in Complete <=> s \in [Ids -> Options] /\ \A c \in Ids : Legal(s, c)
<1> DEFINE Counts(f) == 0..families[f].count - 1
           queues == UNION {{[family |-> f, queue |-> k] : k \in 0..families[f].count - 1} : f \in Families}
           options == {Declined} \cup {[accepted |-> TRUE, aliased |-> a, family |-> q.family,
                                        queue |-> q.queue] : a \in BOOLEAN, q \in queues}
<1>1. Complete = {t \in [Ids -> options] : \A c \in Ids : Legal(t, c)}
  BY DEF Complete
<1>2. ASSUME NEW x \in options PROVE x \in Options
  <2>1. CASE x = Declined
    BY <2>1 DEF Options, Choice, Declined
  <2>2. CASE x # Declined
    <3>1. PICK a \in BOOLEAN, q \in queues :
             x = [accepted |-> TRUE, aliased |-> a, family |-> q.family, queue |-> q.queue]
      BY <2>2
    <3>2. PICK f \in Families : \E k \in 0..families[f].count - 1 : q = [family |-> f, queue |-> k]
      BY <3>1
    <3>3. PICK k \in 0..families[f].count - 1 : q = [family |-> f, queue |-> k]
      BY <3>2
    <3>4. /\ x = [accepted |-> TRUE, aliased |-> a, family |-> f, queue |-> k]
          /\ f \in Nat /\ families[f].count \in Nat /\ k \in Nat /\ k < families[f].count
      BY <3>1, <3>3, FamiliesAre
    <3> QED BY <3>4 DEF Options, Choice
  <2> QED BY <2>1, <2>2
<1>3. ASSUME NEW x \in Options PROVE x \in options
  <2>1. CASE x = Declined
    BY <2>1
  <2>2. CASE x # Declined
    <3>1. /\ x \in Choice /\ x.accepted = TRUE /\ x.family \in Families /\ x.queue < families[x.family].count
      BY <2>2 DEF Options, Choice
    <3> DEFINE q == [family |-> x.family, queue |-> x.queue]
    <3>2. x.queue \in 0..families[x.family].count - 1
      BY <3>1, FamiliesAre DEF Choice
    <3>3. q \in queues
      BY <3>1, <3>2
    <3>4. x = [accepted |-> TRUE, aliased |-> x.aliased, family |-> q.family, queue |-> q.queue]
      BY <3>1 DEF Choice
    <3>5. x.aliased \in BOOLEAN
      BY <3>1 DEF Choice
    <3> HIDE DEF q, queues
    <3> QED BY <3>3, <3>4, <3>5
  <2> QED BY <2>1, <2>2
<1> HIDE DEF options
<1>4. options = Options
  BY <1>2, <1>3
<1> QED BY <1>1, <1>4

(* What is tried for a request: all it allows, each kind of choice once.    *)
LEMMA AttemptsAre ==
    ASSUME Searched, NEW c \in Ids
    PROVE  /\ Attempts(c) \in Seq(Items) /\ Exclusive(Attempts(c))
           /\ \A k \in DOMAIN Attempts(c) : Permitted(Attempts(c)[k], c)
           /\ \A s : Legal(s, c) => LeadsAny(Attempts(c), s[c])
<1> DEFINE policy == request[c].alias_policy
           strength == request[c].strength
           items == Attempts(c)
<1>1. policy \in AliasPolicies /\ strength \in Strengths
  BY WellFormed DEF Searched
<1> DEFINE Allowed(item) == \/ item = Inspect /\ policy # "require_alias"
                            \/ item = Alias /\ policy # "forbid_alias"
                            \/ item = Decline /\ strength = "optional"
<1>2. /\ items \in Seq(Items) /\ IsInjective(items)
      /\ \A k \in DOMAIN items : Allowed(items[k])
      /\ \A item \in Items : Allowed(item) => \E k \in DOMAIN items : items[k] = item
  <2> DEFINE first == (CASE policy = "forbid_alias" -> <<Inspect>>
                         [] policy = "require_alias" -> <<Alias>>
                         [] policy = "prefer_alias_with_distinct_fallback" -> <<Alias, Inspect>>
                         [] policy = "prefer_distinct_with_alias_fallback" -> <<Inspect, Alias>>)
             last == IF strength = "optional" THEN <<Decline>> ELSE <<>>
  <2>1. items = first \o last
    BY DEF Attempts
  <2> DEFINE P1 == Allowed(Inspect)
             P2 == Allowed(Alias)
  <2>2. /\ Inspect \in Items /\ Alias \in Items /\ Decline \in Items
        /\ Inspect # Alias /\ Inspect # Decline /\ Alias # Decline
    BY DEF Inspect, Alias, Decline, Items
  <2>3. /\ first \in Seq(Items) /\ IsInjective(first)
        /\ \A k \in DOMAIN first : Allowed(first[k]) /\ first[k] # Decline
        /\ \A item \in Items \ {Decline} : Allowed(item) => \E k \in DOMAIN first : first[k] = item
    <3>1. CASE policy = "forbid_alias"
      <4>1. first = <<Inspect>>
        BY <3>1
      <4> HIDE DEF first
      <4> QED BY <2>2, <3>1, <4>1 DEF IsInjective
    <3>2. CASE policy = "require_alias"
      <4>1. first = <<Alias>>
        BY <3>2
      <4> HIDE DEF first
      <4> QED BY <2>2, <3>2, <4>1 DEF IsInjective
    <3>3. CASE policy = "prefer_alias_with_distinct_fallback"
      <4>1. first = <<Alias, Inspect>>
        BY <3>3
      <4> HIDE DEF first
      <4> QED BY <2>2, <3>3, <4>1 DEF IsInjective
    <3>4. CASE policy = "prefer_distinct_with_alias_fallback"
      <4>1. first = <<Inspect, Alias>>
        BY <3>4
      <4> HIDE DEF first
      <4> QED BY <2>2, <3>4, <4>1 DEF IsInjective
    <3> QED BY <1>1, <3>1, <3>2, <3>3, <3>4 DEF AliasPolicies
  <2> HIDE DEF first, items
  <2>4. CASE strength = "optional"
    <3>1. items = Append(first, Decline)
      BY <2>1, <2>2, <2>3, <2>4
    <3>2. Decline \notin Range(first)
      BY <2>3 DEF Range
    <3>3. items \in Seq(Items) /\ Range(items) = Range(first) \cup {Decline} /\ IsInjective(items)
      BY <2>2, <2>3, <3>1, <3>2, OneMore
    <3>4. \A item : (\E k \in DOMAIN items : items[k] = item) <=> item \in Range(items)
      BY DEF Range
    <3>5. \A item : (\E k \in DOMAIN first : first[k] = item) <=> item \in Range(first)
      BY DEF Range
    <3>6. \A item \in Range(items) : Allowed(item)
      BY <2>3, <2>4, <3>3, <3>5
    <3>7. \A k \in DOMAIN items : items[k] \in Range(items)
      BY DEF Range
    <3> HIDE DEF Allowed
    <3> QED BY <2>3, <3>3, <3>4, <3>5, <3>6, <3>7
  <2>5. CASE strength # "optional"
    <3>1. items = first
      BY <2>1, <2>3, <2>5
    <3>2. ~Allowed(Decline)
      BY <2>2, <2>5
    <3> HIDE DEF Allowed
    <3> QED BY <2>3, <3>1, <3>2
  <2> QED BY <2>4, <2>5
<1> HIDE DEF items
<1>3. \A k \in DOMAIN items : Permitted(items[k], c)
  BY <1>2 DEF Permitted, Inspect, Alias, Decline
<1>4. Exclusive(items)
  <2>1. ASSUME NEW i, NEW j, Allowed(i), Allowed(j), i # j, NEW x \in Options
        PROVE  ~(Leads(i, x) /\ Leads(j, x))
    <3>1. /\ Leads(Inspect, x) <=> x.accepted /\ ~x.aliased
          /\ Leads(Alias, x) <=> x.accepted /\ x.aliased
          /\ Leads(Decline, x) <=> ~x.accepted
      BY DEF Leads, Inspect, Alias, Decline, Distinct
    <3>2. i \in {Inspect, Alias, Decline} /\ j \in {Inspect, Alias, Decline}
      BY <2>1
    <3> QED BY <2>1, <3>1, <3>2
  <2> HIDE DEF Allowed
  <2> QED BY <1>2, <2>1 DEF Exclusive, IsInjective
<1>5. ASSUME NEW s, Legal(s, c) PROVE LeadsAny(items, s[c])
  <2> DEFINE x == s[c]
  <2>1. \E item \in Items : Allowed(item) /\ Leads(item, x)
    <3>1. PICK j \in 1..Len(order) : c = order[j]
      BY OrderIs DEF Searched
    <3>2. /\ ~x.accepted => strength = "optional"
          /\ x.accepted /\ x.aliased => policy # "forbid_alias"
          /\ x.accepted /\ ~x.aliased => policy # "require_alias"
      BY <1>5, <3>1, LegalIs DEF Searched
    <3>3. Inspect \in Items /\ Alias \in Items /\ Decline \in Items
      BY DEF Inspect, Alias, Decline, Items
    <3>4. CASE ~x.accepted
      <4>1. Allowed(Decline) /\ Leads(Decline, x)
        BY <3>2, <3>4 DEF Leads, Decline
      <4> QED BY <3>3, <4>1
    <3>5. CASE x.accepted /\ x.aliased
      <4>1. Allowed(Alias) /\ Leads(Alias, x)
        BY <3>2, <3>5 DEF Leads, Alias
      <4> QED BY <3>3, <4>1
    <3>6. CASE x.accepted /\ ~x.aliased
      <4>1. Allowed(Inspect) /\ Leads(Inspect, x)
        BY <3>2, <3>6 DEF Leads, Inspect, Distinct
      <4> QED BY <3>3, <4>1
    <3> QED BY <3>4, <3>5, <3>6
  <2> HIDE DEF Allowed, x
  <2>2. LeadsAny(items, x)
    BY <1>2, <2>1 DEF LeadsAny
  <2> QED BY <2>2 DEF x
<1> QED BY <1>2, <1>3, <1>4, <1>5 DEF items

(* What is tried on a level, the leaf below the last request included.      *)
LEMMA CallIs ==
    ASSUME Searched, limit \in BOOLEAN, NEW l \in 1..Len(order) + 1
    PROVE  /\ Call(l) \in Seq(Items) /\ Exclusive(Call(l))
           /\ \A k \in DOMAIN Call(l) : Sensible(Call(l)[k], l)
           /\ ~limit => \A s \in Complete : LeadsAny(Call(l), s[order[l]])
<1>1. CASE limit
  <2>1. Call(l) = <<>>
    BY <1>1 DEF Call
  <2> QED BY <1>1, <2>1 DEF Exclusive
<1>2. CASE ~limit /\ l > Len(order)
  <2>1. Call(l) = <<Leaf>>
    BY <1>2 DEF Call
  <2>2. Leaf \in Items /\ \A x : Leads(Leaf, x)
    BY DEF Leaf, Items, Leads
  <2>3. <<Leaf>> \in Seq(Items) /\ DOMAIN <<Leaf>> = {1} /\ <<Leaf>>[1] = Leaf
    BY <2>2
  <2> HIDE DEF Leaf
  <2> QED BY <1>2, <2>1, <2>2, <2>3 DEF Exclusive, Sensible, LeadsAny
<1>3. CASE ~limit /\ ~(l > Len(order))
  <2>1. Call(l) = Attempts(order[l])
    BY <1>3 DEF Call
  <2>2. l \in 1..Len(order)
    BY <1>3, OrderIs DEF Searched
  <2>3. order[l] \in Ids
    BY <2>2, OrderIs DEF Searched
  <2>4. \A s \in Complete : Legal(s, order[l])
    BY <2>3, CompleteIs DEF Searched
  <2> QED BY <1>3, <2>1, <2>3, <2>4, AttemptsAre DEF Sensible
<1> QED BY <1>1, <1>2, <1>3


\* What the search never changes.
Fixed == <<families, request, order>>

LEMMA FixedMeans ==
    ASSUME UNCHANGED Fixed
    PROVE  /\ Ids' = Ids /\ Options' = Options /\ Complete' = Complete
           /\ \A s, c : Legal(s, c)' <=> Legal(s, c)
           /\ \A item, l : Sensible(item, l)' <=> Sensible(item, l)
           /\ \A items : Exclusive(items)' <=> Exclusive(items)
           /\ Searched => Searched'
<1>1. families' = families /\ request' = request /\ order' = order
  BY DEF Fixed
<1>2. Ids' = Ids /\ Families' = Families /\ Options' = Options
  BY <1>1 DEF Ids, Families, Options
<1>3. \A f, r : Suits(f, r)' <=> Suits(f, r)
  BY <1>1, <1>2 DEF Suits, Supports
<1>4. \A c : Target(c)' = Target(c)
  BY <1>1 DEF Target
<1>5. ASSUME NEW s, NEW c PROVE Legal(s, c)' <=> Legal(s, c)
  BY <1>1, <1>2, <1>3, <1>4 DEF Legal
<1>6. Complete' = Complete
  BY <1>1, <1>2, <1>5 DEF Complete
<1>7. \A item, l : Sensible(item, l)' <=> Sensible(item, l)
  BY <1>1, <1>3 DEF Sensible, Permitted
<1>8. \A items : Exclusive(items)' <=> Exclusive(items)
  BY <1>2 DEF Exclusive
<1>9. ASSUME Searched PROVE Searched'
  <2>1. Normalized'
    BY <1>1, <1>2, <1>4, <1>9 DEF Searched, Normalized, Malformed
  <2>2. OrderInv'
    BY <1>1, <1>2, <1>4, <1>9 DEF Searched, OrderInv, TargetsFirst
  <2> QED BY <1>1, <1>9, <2>1, <2>2 DEF Searched
<1> QED BY <1>2, <1>5, <1>6, <1>7, <1>8, <1>9

(* What is tried on a level may be replaced by items that belong there.     *)
LEMMA SameLevelKeeps ==
    ASSUME Searched, SearchInv, NEW items \in Seq(Items),
           pending' = [pending EXCEPT ![level] = items],
           UNCHANGED <<Fixed, level, choices, used>>, limit' \in BOOLEAN,
           Exclusive(items), \A k \in DOMAIN items : Sensible(items[k], level)
    PROVE  /\ (SearchTypes /\ PathInv /\ TasksInv)'
           /\ \A l \in 1..level - 1 : pending'[l] = pending[l]
           /\ pending'[level] = items
<1>1. /\ level' = level /\ choices' = choices /\ used' = used
      /\ families' = families /\ request' = request /\ order' = order /\ UNCHANGED Fixed
  BY DEF Fixed
<1>2. /\ level \in Nat /\ level \in 1..Len(order) + 1
      /\ pending' \in [1..Len(order) + 1 -> Seq(Items)] /\ pending'[level] = items
      /\ \A l \in 1..level - 1 : pending'[l] = pending[l] /\ l \in 1..level
      /\ \A l \in 1..level : l \in 1..level - 1 \/ l = level
  BY OrderIs DEF SearchInv, SearchTypes, Searched
<1>3. SearchTypes'
  <2>1. Families' = Families /\ Ids' = Ids /\ Options' = Options
    BY <1>1, FixedMeans DEF Families
  <2>2. \A f : Holding(choices, f)' = Holding(choices, f)
    BY <1>1, <2>1 DEF Holding
  <2>3. used' = [f \in Families |-> Cardinality(Holding(choices, f))]'
    BY <1>1, <2>1, <2>2 DEF SearchInv, SearchTypes
  <2> QED BY <1>1, <1>2, <2>1, <2>3 DEF SearchInv, SearchTypes
<1>4. PathInv'
  BY <1>1, FixedMeans DEF SearchInv, PathInv
<1>5. TasksInv'
  <2>1. ASSUME NEW l \in 1..level
        PROVE  Exclusive(pending'[l]) /\ \A k \in DOMAIN pending'[l] : Sensible(pending'[l][k], l)
    BY <1>2, <2>1 DEF SearchInv, TasksInv
  <2>2. \A l \in 1..level - 1 : ~LeadsAny(pending'[l], choices[order[l]])
    BY <1>2 DEF SearchInv, TasksInv
  <2> QED BY <1>1, <2>1, <2>2, FixedMeans DEF TasksInv
<1> QED BY <1>2, <1>3, <1>4, <1>5

(* They lead to the same allocations, or to fewer when the search is given  *)
(* up.                                                                      *)
LEMMA SameLevel ==
    ASSUME Searched, SearchInv, NEW items \in Seq(Items),
           pending' = [pending EXCEPT ![level] = items],
           UNCHANGED <<Fixed, level, choices, used, solutions>>,
           limit' \in BOOLEAN, limit => limit',
           Exclusive(items), \A k \in DOMAIN items : Sensible(items[k], level),
           \A s \in Complete :
               LeadsAny(items, s[order[level]]) => LeadsAny(pending[level], s[order[level]]),
           ~limit' => \A s \in Complete :
               Follows(s, level) /\ LeadsAny(pending[level], s[order[level]])
                 => LeadsAny(items, s[order[level]])
    PROVE  SearchInv'
<1>1. /\ level' = level /\ choices' = choices /\ solutions' = solutions /\ order' = order
      /\ UNCHANGED Fixed
  BY DEF Fixed
<1>2. /\ (SearchTypes /\ PathInv /\ TasksInv)'
      /\ \A l \in 1..level - 1 : pending'[l] = pending[l]
      /\ pending'[level] = items
  BY SameLevelKeeps
<1>3. \A l \in 1..level : l \in 1..level - 1 \/ l = level
  BY OrderIs DEF SearchInv, SearchTypes, Searched
<1>4. \A s, l : Follows(s, l)' <=> Follows(s, l)
  BY <1>1 DEF Follows
<1>5. ASSUME NEW s \in Complete, Waiting(s)' PROVE Waiting(s)
  <2>1. PICK l \in 1..level : Follows(s, l) /\ LeadsAny(pending'[l], s[order[l]])
    BY <1>1, <1>4, <1>5 DEF Waiting
  <2>2. LeadsAny(pending[l], s[order[l]])
    BY <1>2, <1>3, <2>1
  <2> QED BY <2>1, <2>2 DEF Waiting
<1>6. ASSUME ~limit', NEW s \in Complete, Waiting(s) PROVE Waiting(s)'
  <2>1. PICK l \in 1..level : Follows(s, l) /\ LeadsAny(pending[l], s[order[l]])
    BY <1>6 DEF Waiting
  <2>2. LeadsAny(pending'[l], s[order[l]])
    BY <1>2, <1>3, <1>6, <2>1
  <2> QED BY <1>1, <1>4, <2>1, <2>2 DEF Waiting
<1>7. RetainedInv'
  <2>1. \A s \in Range(solutions) : s \in Complete
    BY DEF SearchInv, RetainedInv, Range
  <2>2. \A s \in Range(solutions) : ~Waiting(s)'
    BY <1>5, <2>1 DEF SearchInv, RetainedInv
  <2>3. ~limit' => \A s \in Complete : s \in Range(solutions) \/ Waiting(s)'
    BY <1>6 DEF SearchInv, RetainedInv
  <2> QED BY <1>1, <2>2, <2>3, FixedMeans DEF SearchInv, RetainedInv
<1> QED BY <1>2, <1>7 DEF SearchInv

(* The first item is given up: nothing follows the choices and it, or the   *)
(* search is out of work.                                                   *)
LEMMA FirstDropped ==
    ASSUME Searched, SearchInv, pending[level] # <<>>, pending' = Done,
           UNCHANGED <<Fixed, level, choices, used, solutions>>,
           limit' \in BOOLEAN, limit => limit',
           ~limit' => \A s \in Complete : ~(Follows(s, level) /\ Leads(Head(pending[level]), s[order[level]]))
    PROVE  SearchInv'
<1> DEFINE items == Tail(pending[level])
<1>1. pending[level] \in Seq(Items) /\ level \in DOMAIN pending /\ level \in 1..level
  BY OrderIs DEF SearchInv, SearchTypes, Searched
<1>2. pending' = [pending EXCEPT ![level] = items]
  BY DEF Done
<1>3. /\ Exclusive(pending[level])
      /\ \A k \in DOMAIN pending[level] : Sensible(pending[level][k], level)
  BY <1>1 DEF SearchInv, TasksInv
<1>4. /\ items \in Seq(Items) /\ Exclusive(items)
      /\ \A x : LeadsAny(pending[level], x) <=> Leads(Head(pending[level]), x) \/ LeadsAny(items, x)
      /\ \A k \in DOMAIN items : Sensible(items[k], level)
  BY <1>1, <1>3, RestIs
<1> HIDE DEF items
<1> QED BY <1>2, <1>4, SameLevel


(* A complete allocation that agrees so far makes a legal choice next.      *)
LEMMA FollowersMay ==
    ASSUME Searched, SearchTypes, level <= Len(order), NEW s \in Complete, Follows(s, level)
    PROVE  s[Current] \in Options /\ MayChoose(s[Current])
<1> DEFINE c == Current
           t == [choices EXCEPT ![c] = s[c]]
<1>1. /\ level \in 1..Len(order) /\ level \in Nat /\ c = order[level] /\ c \in Ids
      /\ choices \in [Ids -> Options]
      /\ \A i \in 1..level - 1 : i \in 1..Len(order)
      /\ \A i \in 1..level : i \in 1..level - 1 \/ i = level
  BY OrderIs DEF SearchTypes, Searched, Current
<1> HIDE DEF c
<1>2. s[c] \in Options /\ Legal(s, c)
  BY <1>1, CompleteIs DEF Searched
<1>3. t[c] = s[c] /\ \A d \in Ids \ {c} : t[d] = choices[d]
  BY <1>1
<1>4. \A i \in 1..level - 1 : order[i] \in Ids /\ s[order[i]] = choices[order[i]]
  BY <1>1, OrderIs DEF Follows, Searched
<1>5. t = [choices EXCEPT ![Current] = s[Current]]
  BY DEF c
<1> HIDE DEF t
<1>6. ASSUME NEW i \in 1..level PROVE s[order[i]] = t[order[i]]
  <2>1. CASE order[i] = c
    BY <1>3, <2>1
  <2>2. CASE order[i] # c
    BY <1>1, <1>3, <1>4, <2>2
  <2> QED BY <2>1, <2>2
<1>7. Legal(s, order[level]) <=> Legal(t, order[level])
  BY <1>1, <1>6, LegalDepends DEF Searched
<1> QED BY <1>1, <1>2, <1>5, <1>7 DEF MayChoose, c

\* x is the one choice that the first item of the current level leads to.
FirstMeans(x) ==
    /\ x \in Options /\ MayChoose(x) /\ Leads(Head(pending[level]), x)
    /\ \A y \in Options : Leads(Head(pending[level]), y) /\ MayChoose(y) => y = x

(* The choice is made and the search goes on one level below.               *)
LEMMA Descends ==
    ASSUME Searched, SearchInv, level <= Len(order), pending[level] # <<>>, NEW x, FirstMeans(x),
           UNCHANGED <<Fixed, solutions, limit>>,
           choices' = [choices EXCEPT ![Current] = x],
           used' = IF Distinct(x) THEN [used EXCEPT ![x.family] = @ + 1] ELSE used,
           level' = level + 1, pending' = [Done EXCEPT ![level + 1] = Call(level + 1)]
    PROVE  SearchInv'
<1> DEFINE c == Current
           rest == Tail(pending[level])
           first == Head(pending[level])
           n == Len(order)
<1>1. /\ n \in Nat /\ level \in Nat /\ level \in 1..n /\ level + 1 \in 1..n + 1 /\ c = order[level] /\ c \in Ids
      /\ \A l \in 1..level + 1 : l \in 1..level - 1 \/ l = level \/ l = level + 1
      /\ \A l \in 1..level - 1 : l \in 1..level /\ l # level /\ l # level + 1 /\ l \in 1..n
      /\ 1..level \subseteq 1..level + 1 /\ level # level + 1 /\ level + 1 \in 1..level + 1
      /\ level \in 1..level
  BY OrderIs DEF SearchInv, SearchTypes, Searched, Current
<1> HIDE DEF n
<1>2. /\ n = Len(order) /\ choices \in [Ids -> Options] /\ x \in Options
      /\ solutions' = solutions /\ limit' = limit /\ limit \in BOOLEAN
      /\ families' = families /\ request' = request /\ order' = order /\ UNCHANGED Fixed
  BY DEF SearchInv, SearchTypes, Fixed, n, FirstMeans
<1>3. /\ pending[level] \in Seq(Items) /\ Exclusive(pending[level])
      /\ \A k \in DOMAIN pending[level] : Sensible(pending[level][k], level)
  BY <1>1, <1>2 DEF SearchInv, SearchTypes, TasksInv
<1>4. /\ rest \in Seq(Items) /\ Exclusive(rest)
      /\ \A y : LeadsAny(pending[level], y) <=> Leads(first, y) \/ LeadsAny(rest, y)
      /\ \A y \in Options : Leads(first, y) => ~LeadsAny(rest, y)
      /\ \A k \in DOMAIN rest : Sensible(rest[k], level)
  BY <1>3, RestIs
<1>5. /\ Leads(first, x) /\ Legal(choices', c)
      /\ \A y \in Options : Leads(first, y) /\ MayChoose(y) => y = x
  BY DEF FirstMeans, MayChoose
<1>6. /\ Call(level + 1) \in Seq(Items) /\ Exclusive(Call(level + 1))
      /\ \A k \in DOMAIN Call(level + 1) : Sensible(Call(level + 1)[k], level + 1)
      /\ ~limit => \A s \in Complete : LeadsAny(Call(level + 1), s[order[level + 1]])
  BY <1>1, <1>2, CallIs
<1>7. /\ pending' \in [1..n + 1 -> Seq(Items)]
      /\ \A l \in 1..level - 1 : pending'[l] = pending[l]
      /\ pending'[level] = rest /\ pending'[level + 1] = Call(level + 1)
  <2>1. /\ pending \in [1..n + 1 -> Seq(Items)] /\ level \in 1..n + 1
        /\ pending' = [[pending EXCEPT ![level] = rest] EXCEPT ![level + 1] = Call(level + 1)]
    BY <1>1, <1>2 DEF Done, SearchInv, SearchTypes
  <2> DEFINE some == [pending EXCEPT ![level] = rest]
             below == Call(level + 1)
  <2>2. rest \in Seq(Items) /\ below \in Seq(Items)
    BY <1>4, <1>6
  <2> HIDE DEF rest, below
  <2>3. /\ some \in [1..n + 1 -> Seq(Items)] /\ some[level] = rest
        /\ \A l \in 1..level - 1 : some[l] = pending[l]
    BY <1>1, <2>1, <2>2
  <2>4. pending' = [some EXCEPT ![level + 1] = below]
    BY <2>1 DEF below
  <2> HIDE DEF some
  <2>5. /\ pending' \in [1..n + 1 -> Seq(Items)] /\ pending'[level + 1] = below
        /\ \A l \in 1..n + 1 : l # level + 1 => pending'[l] = some[l]
    BY <1>1, <2>2, <2>3, <2>4
  <2>6. \A l \in 1..level - 1 : l \in 1..n + 1 /\ l # level + 1
    BY <1>1
  <2> QED BY <1>1, <2>1, <2>3, <2>5, <2>6 DEF below
<1> HIDE DEF rest, first
<1>8. /\ choices' \in [Ids -> Options] /\ choices'[c] = x
      /\ \A d \in Ids \ {c} : choices'[d] = choices[d]
      /\ \A j \in 1..n : j # level => choices'[order[j]] = choices[order[j]]
  <2>1. \A j \in 1..n : j # level => order[j] \in Ids /\ order[j] # c
    BY <1>1, <1>2, OrderIs DEF Searched
  <2> QED BY <1>1, <1>2, <2>1
<1>9. choices[c] = Declined
  BY <1>1, <1>2 DEF SearchInv, PathInv
<1> HIDE DEF c
<1>10. SearchTypes'
  <2>1. used' = [f \in Families |-> Cardinality(Holding(choices', f))]
    <3>1. ASSUME NEW f \in Families
          PROVE  /\ used[f] = Cardinality(Holding(choices, f)) /\ used[f] \in Nat
                 /\ Distinct(x) /\ x.family = f =>
                      Cardinality(Holding(choices', f)) = Cardinality(Holding(choices, f)) + 1
                 /\ ~(Distinct(x) /\ x.family = f) => Holding(choices', f) = Holding(choices, f)
      <4>1. IsFiniteSet(Holding(choices, f)) /\ c \notin Holding(choices, f)
        <5>1. IsFiniteSet(Ids)
          BY DEF Searched, Normalized
        <5>2. Holding(choices, f) \subseteq Ids
          BY DEF Holding
        <5> QED BY <1>9, <5>1, <5>2, FS_Subset DEF Holding, Distinct, Declined
      <4>2. Distinct(x) /\ x.family = f => Holding(choices', f) = Holding(choices, f) \cup {c}
        BY <1>1, <1>8 DEF Holding
      <4>3. ~(Distinct(x) /\ x.family = f) => Holding(choices', f) = Holding(choices, f)
        BY <1>1, <1>8, <4>1 DEF Holding
      <4>4. used[f] = Cardinality(Holding(choices, f)) /\ used[f] \in Nat
        BY <4>1, FS_CardinalityType DEF SearchInv, SearchTypes
      <4>5. Cardinality(Holding(choices, f) \cup {c}) = Cardinality(Holding(choices, f)) + 1
        BY <4>1, FS_AddElement
      <4> QED BY <4>2, <4>3, <4>4, <4>5
    <3>2. DOMAIN used = Families
      BY DEF SearchInv, SearchTypes
    <3>3. CASE Distinct(x)
      <4>1. used' = [used EXCEPT ![x.family] = @ + 1]
        BY <3>3
      <4>2. \A f \in Families : used'[f] = IF f = x.family THEN used[f] + 1 ELSE used[f]
        BY <3>2, <4>1
      <4>3. used' = [f \in Families |-> IF f = x.family THEN used[f] + 1 ELSE used[f]]
        BY <3>2, <4>1
      <4>4. \A f \in Families : Cardinality(Holding(choices', f)) = IF f = x.family THEN used[f] + 1 ELSE used[f]
        BY <3>1, <3>3
      <4> QED BY <4>3, <4>4
    <3>4. CASE ~Distinct(x)
      <4>1. \A f \in Families : Holding(choices', f) = Holding(choices, f)
        BY <3>1, <3>4
      <4>2. used' = [f \in Families |-> Cardinality(Holding(choices, f))]
        BY <3>4 DEF SearchInv, SearchTypes
      <4> QED BY <4>1, <4>2
    <3> QED BY <3>3, <3>4
  <2>2. Families' = Families /\ Ids' = Ids /\ Options' = Options
    BY <1>2, FixedMeans DEF Families
  <2>3. \A f : Holding(choices, f)' = Holding(choices', f)
    BY <2>2 DEF Holding
  <2>4. used' = [f \in Families |-> Cardinality(Holding(choices, f))]'
    BY <2>1, <2>2, <2>3
  <2> QED BY <1>1, <1>2, <1>7, <1>8, <2>2, <2>4 DEF SearchTypes
<1>11. PathInv'
  <2>1. ASSUME NEW j \in 1..level - 1 PROVE Legal(choices', order[j])
    <3>1. \A i \in 1..j : choices'[order[i]] = choices[order[i]]
      <4>1. \A i \in 1..j : i \in 1..n /\ i # level
        BY <1>1
      <4> QED BY <1>8, <4>1
    <3>2. j \in 1..Len(order)
      BY <1>1, <1>2
    <3>3. Legal(choices', order[j]) <=> Legal(choices, order[j])
      BY <3>1, <3>2, LegalDepends DEF Searched
    <3> QED BY <3>3 DEF SearchInv, PathInv
  <2>2. ASSUME NEW j \in level + 1..n PROVE choices'[order[j]] = Declined
    <3>1. j \in 1..n /\ j # level /\ j \in level..n
      BY <1>1
    <3> QED BY <1>2, <1>8, <3>1 DEF SearchInv, PathInv
  <2>3. \A j \in 1..(level + 1) - 1 : j \in 1..level - 1 \/ j = level
    BY <1>1
  <2>4. \A j \in 1..(level + 1) - 1 : Legal(choices', order[j])
    BY <1>1, <1>5, <2>1, <2>3 DEF c
  <2> QED BY <1>2, <2>2, <2>4, FixedMeans DEF PathInv
<1>12. TasksInv'
  <2>1. ASSUME NEW l \in 1..level + 1
        PROVE  Exclusive(pending'[l]) /\ \A k \in DOMAIN pending'[l] : Sensible(pending'[l][k], l)
    <3>1. CASE l \in 1..level - 1
      BY <1>1, <1>7, <3>1 DEF SearchInv, TasksInv
    <3> QED BY <1>1, <1>4, <1>6, <1>7, <3>1
  <2>2. ASSUME NEW l \in 1..level PROVE ~LeadsAny(pending'[l], choices'[order[l]])
    <3>1. CASE l = level
      BY <1>1, <1>2, <1>4, <1>5, <1>7, <1>8, <3>1
    <3>2. CASE l \in 1..level - 1
      BY <1>1, <1>7, <1>8, <3>2 DEF SearchInv, TasksInv
    <3> QED BY <1>1, <3>1, <3>2
  <2>3. (level + 1) - 1 = level
    BY <1>1
  <2> QED BY <1>2, <2>1, <2>2, <2>3, FixedMeans DEF TasksInv
<1>13. ASSUME NEW s
       PROVE  /\ \A l \in 1..level : Follows(s, l)' <=> Follows(s, l)
              /\ \A l : l = level + 1 => (Follows(s, l)' <=> Follows(s, level) /\ s[c] = x)
  <2>1. \A j \in 1..level - 1 : choices'[order[j]] = choices[order[j]]
    BY <1>1, <1>8
  <2>2. ASSUME NEW l \in 1..level PROVE Follows(s, l)' <=> Follows(s, l)
    <3>1. \A j \in 1..l - 1 : j \in 1..level - 1
      BY <1>1
    <3> QED BY <1>2, <2>1, <3>1 DEF Follows
  <2>3. ASSUME NEW l, l = level + 1
        PROVE  Follows(s, l)' <=> \A j \in 1..level : s[order[j]] = choices'[order[j]]
    <3>1. l - 1 = level
      BY <1>1, <2>3
    <3> QED BY <1>2, <3>1 DEF Follows
  <2>4. Follows(s, level) <=> \A j \in 1..level - 1 : s[order[j]] = choices'[order[j]]
    BY <2>1 DEF Follows
  <2>5. c = order[level] /\ choices'[c] = x
    BY <1>1, <1>8 
  <2>6. \A j \in 1..level : j \in 1..level - 1 \/ j = level
    BY <1>1
  <2> QED BY <1>1, <2>2, <2>3, <2>4, <2>5, <2>6
<1>14. ASSUME NEW s \in Complete, Waiting(s)' PROVE Waiting(s)
  <2>1. PICK l \in 1..level + 1 : Follows(s, l)' /\ LeadsAny(pending'[l], s[order[l]])
    BY <1>2, <1>14 DEF Waiting
  <2>2. CASE l \in 1..level - 1
    BY <1>1, <1>7, <1>13, <2>1, <2>2 DEF Waiting
  <2>3. CASE l = level
    <3>1. LeadsAny(pending[level], s[order[level]]) /\ Follows(s, level)
      BY <1>1, <1>4, <1>7, <1>13, <2>1, <2>3
    <3> QED BY <1>1, <3>1 DEF Waiting
  <2>4. CASE l = level + 1
    <3>1. Follows(s, level) /\ s[c] = x
      BY <1>13, <2>1, <2>4
    <3>2. LeadsAny(pending[level], s[order[level]])
      BY <1>1, <1>4, <1>5, <3>1
    <3> QED BY <1>1, <3>1, <3>2 DEF Waiting
  <2> QED BY <1>1, <2>2, <2>3, <2>4
<1>15. ASSUME ~limit, NEW s \in Complete, Waiting(s) PROVE Waiting(s)'
  <2>1. PICK l \in 1..level : Follows(s, l) /\ LeadsAny(pending[l], s[order[l]])
    BY <1>15 DEF Waiting
  <2> DEFINE Ahead(m) == m \in 1..level + 1 /\ Follows(s, m)' /\ LeadsAny(pending'[m], s[order[m]])
  <2> SUFFICES \E m : Ahead(m)
    BY <1>2 DEF Waiting
  <2>2. CASE l \in 1..level - 1
    <3>1. Ahead(l)
      BY <1>1, <1>7, <1>13, <2>1, <2>2
    <3> QED BY <3>1
  <2>3. CASE l = level /\ LeadsAny(rest, s[order[level]])
    <3>1. Ahead(l)
      BY <1>1, <1>7, <1>13, <2>1, <2>3
    <3> QED BY <3>1
  <2>4. CASE l = level /\ Leads(first, s[order[level]])
    <3>2. s[c] \in Options
      BY <1>1, CompleteIs DEF Searched
    <3>3. MayChoose(s[c])
      BY <1>1, <2>1, <2>4, FollowersMay DEF c, SearchInv
    <3>4. s[c] = x
      BY <1>1, <1>5, <2>4, <3>2, <3>3
    <3>5. PICK m : m = level + 1
      OBVIOUS
    <3>6. Ahead(m)
      BY <1>1, <1>6, <1>7, <1>13, <1>15, <2>1, <2>4, <3>4, <3>5
    <3> QED BY <3>6
  <2> QED BY <1>1, <1>4, <2>1, <2>2, <2>3, <2>4
<1>16. RetainedInv'
  <2>1. \A s \in Range(solutions) : s \in Complete
    BY DEF SearchInv, RetainedInv, Range
  <2>2. \A s \in Range(solutions) : ~Waiting(s)'
    BY <1>14, <2>1 DEF SearchInv, RetainedInv
  <2>3. ~limit => \A s \in Complete : s \in Range(solutions) \/ Waiting(s)'
    BY <1>15 DEF SearchInv, RetainedInv
  <2> QED BY <1>2, <2>2, <2>3, FixedMeans DEF SearchInv, RetainedInv
<1> QED BY <1>10, <1>11, <1>12, <1>16 DEF SearchInv


(* The first item of the current level.                                     *)
LEMMA FirstIs ==
    ASSUME Searched, SearchInv, pending[level] # <<>>
    PROVE  LET first == Head(pending[level]) IN
           /\ pending[level] \in Seq(Items) /\ Exclusive(pending[level]) /\ first \in Items
           /\ first.do = "leaf" => level = Len(order) + 1 /\ first = Leaf
           /\ first.do # "leaf" => /\ level \in 1..Len(order) /\ level <= Len(order)
                                   /\ Current \in Ids /\ Permitted(first, Current)
<1> DEFINE first == Head(pending[level])
<1>1. /\ level \in 1..level /\ level \in 1..Len(order) + 1 /\ Len(order) \in Nat
      /\ pending[level] \in Seq(Items)
  BY OrderIs DEF SearchInv, SearchTypes, Searched
<1>2. Exclusive(pending[level]) /\ \A k \in DOMAIN pending[level] : Sensible(pending[level][k], level)
  BY <1>1 DEF SearchInv, TasksInv
<1>3. first \in Items /\ Sensible(first, level)
  BY <1>1, <1>2, RestIs
<1> HIDE DEF first
<1>4. ASSUME first.do = "leaf" PROVE level = Len(order) + 1 /\ first = Leaf
  BY <1>1, <1>3, <1>4 DEF Sensible, Permitted
<1>5. ASSUME first.do # "leaf"
      PROVE  level \in 1..Len(order) /\ level <= Len(order) /\ Current \in Ids /\ Permitted(first, Current)
  <2>1. ~(level > Len(order))
    BY <1>3, <1>5 DEF Sensible, Leaf
  <2>2. level \in 1..Len(order) /\ level <= Len(order)
    BY <1>1, <2>1
  <2> QED BY <1>3, <2>1, <2>2, OrderIs DEF Sensible, Current, Searched
<1> QED BY <1>1, <1>2, <1>3, <1>4, <1>5 DEF first

(* visit() of the one choice the first item leads to.                       *)
LEMMA Visits ==
    ASSUME Searched, SearchInv, level <= Len(order), pending[level] # <<>>, NEW x, FirstMeans(x),
           UNCHANGED <<Fixed, solutions>>, Visit(x)
    PROVE  SearchInv'
<1>1. CASE Consume(1)
  <2>1. /\ choices' = [choices EXCEPT ![Current] = x]
        /\ used' = IF Distinct(x) THEN [used EXCEPT ![x.family] = @ + 1] ELSE used
        /\ level' = level + 1
        /\ pending' = [Done EXCEPT ![level + 1] = Call(level + 1)] /\ UNCHANGED limit
    BY <1>1, QueueAssumption DEF Visit, Consume, OutOfWork
  <2> QED BY <2>1, Descends
<1>2. CASE OutOfWork(1) /\ pending' = Done /\ UNCHANGED <<choices, used, level>>
  <2>1. limit' = TRUE
    BY <1>2 DEF OutOfWork
  <2> QED BY <1>2, <2>1, FirstDropped
<1> QED BY <1>1, <1>2 DEF Visit

(* The choice cannot be made: nothing follows.                              *)
LEMMA FirstImpossible ==
    ASSUME Searched, SearchInv, level <= Len(order), pending[level] # <<>>, pending' = Done,
           UNCHANGED <<Fixed, level, choices, used, solutions, limit>>,
           \A y \in Options : ~(Leads(Head(pending[level]), y) /\ MayChoose(y))
    PROVE  SearchInv'
<1>1. limit' \in BOOLEAN /\ (limit => limit')
  BY DEF SearchInv, SearchTypes
<1>2. \A s \in Complete : ~(Follows(s, level) /\ Leads(Head(pending[level]), s[order[level]]))
  BY FollowersMay DEF SearchInv, Current
<1> QED BY <1>1, <1>2, FirstDropped

LEMMA SearchFrame ==
    ASSUME UNCHANGED <<inputVars, phase, request, relationVars, solutions, compareVars, result>>
    PROVE  UNCHANGED <<Fixed, solutions>>
BY DEF inputVars, relationVars, Fixed

LEMMA AliasStep ==
    ASSUME Searched, SearchInv, TryAlias
    PROVE  SearchInv'
<1> DEFINE first == Head(pending[level])
           c == Current
           x == [choices[Target(Current)] EXCEPT !.aliased = TRUE]
<1>1. /\ pending[level] # <<>> /\ first.do = "alias" /\ UNCHANGED <<Fixed, solutions>>
      /\ \/ CanAlias(c) /\ Visit(x)
         \/ ~CanAlias(c) /\ pending' = Done /\ UNCHANGED <<choices, used, level, budgetVars>>
  BY SearchFrame DEF TryAlias, Searching
<1>2. /\ level <= Len(order) /\ c \in Ids /\ request[c].alias_policy # "forbid_alias"
  BY <1>1, FirstIs DEF Permitted
<1>3. \A y : Leads(first, y) <=> y.accepted /\ y.aliased
  BY <1>1 DEF Leads
<1>4. ASSUME NEW y \in Options
      PROVE  Leads(first, y) /\ MayChoose(y) <=> CanAlias(c) /\ y = x
  <2>1. CanAlias(c) /\ y = x => y.accepted /\ y.aliased
    <3>1. Target(c) \in Ids
      BY <1>2, WellFormed DEF Searched
    <3>2. choices[Target(c)] \in Choice
      BY <3>1 DEF SearchInv, SearchTypes, Options
    <3> QED BY <3>2 DEF Choice, CanAlias
  <2> HIDE DEF x
  <2>2. y.accepted /\ y.aliased => (MayChoose(y) <=> CanAlias(c) /\ y = x)
    BY <1>2, LegalNext DEF SearchInv, x
  <2> QED BY <1>3, <2>1, <2>2
<1>5. CASE CanAlias(c) /\ Visit(x)
  <2>1. x \in Options
    <3>1. Target(c) \in Ids
      BY <1>2, WellFormed DEF Searched
    <3>2. choices[Target(c)] \in Options /\ choices[Target(c)].accepted
      BY <1>5, <3>1 DEF SearchInv, SearchTypes, CanAlias
    <3> DEFINE t == choices[Target(c)]
    <3>3. t \in Choice /\ t.family \in Families /\ t.queue < families[t.family].count
      BY <3>2 DEF Options, Declined
    <3> HIDE DEF t
    <3>4. LET z == [t EXCEPT !.aliased = TRUE] IN
          z \in Choice /\ z.accepted = t.accepted /\ z.family = t.family /\ z.queue = t.queue
      BY <3>3 DEF Choice
    <3> QED BY <3>2, <3>3, <3>4 DEF Options, t
  <2> HIDE DEF x
  <2>2. FirstMeans(x)
    BY <1>4, <1>5, <2>1 DEF FirstMeans
  <2> QED BY <1>1, <1>2, <1>5, <2>2, Visits
<1>6. CASE ~CanAlias(c) /\ pending' = Done /\ UNCHANGED <<choices, used, level, budgetVars>>
  <2>1. UNCHANGED limit
    BY <1>6 DEF budgetVars
  <2> HIDE DEF x
  <2> QED BY <1>1, <1>2, <1>4, <1>6, <2>1, FirstImpossible
<1> QED BY <1>1, <1>5, <1>6

LEMMA TakeStep ==
    ASSUME Searched, SearchInv, TakeFamily
    PROVE  SearchInv'
<1> DEFINE first == Head(pending[level])
           c == Current
           f == first.family
           x == [accepted |-> TRUE, aliased |-> FALSE, family |-> f, queue |-> used[f]]
<1>1. /\ pending[level] # <<>> /\ first.do = "take" /\ UNCHANGED <<Fixed, solutions>>
      /\ \/ HasFreeQueue(f) /\ Visit(x)
         \/ ~HasFreeQueue(f) /\ pending' = Done /\ UNCHANGED <<choices, used, level, budgetVars>>
  BY SearchFrame DEF TakeFamily, Searching
<1>2. /\ level <= Len(order) /\ c \in Ids /\ request[c].alias_policy # "require_alias"
      /\ Suits(f, request[c])
  BY <1>1, FirstIs DEF Permitted
<1> HIDE DEF c
<1>3. \A y : Leads(first, y) <=> y.accepted /\ ~y.aliased /\ y.family = f
  BY <1>1 DEF Leads, Distinct
<1>4. ASSUME NEW y \in Options
      PROVE  Leads(first, y) /\ MayChoose(y) <=> HasFreeQueue(f) /\ y = x
  <2>1. y = x => y.accepted /\ ~y.aliased /\ y.family = f /\ y.queue = used[f]
    OBVIOUS
  <2>2. y.accepted /\ ~y.aliased /\ y.family = f /\ y.queue = used[f] => y = x
    <3>1. y \in Choice
      BY DEF Options
    <3> QED BY <3>1 DEF Choice
  <2> HIDE DEF x
  <2>3. y.accepted /\ ~y.aliased /\ y.family = f =>
          (MayChoose(y) <=> HasFreeQueue(f) /\ y.queue = used[f])
    <3> HIDE DEF f
    <3> QED BY <1>2, LegalNext DEF SearchInv, c
  <2> QED BY <1>3, <2>1, <2>2, <2>3
<1>5. CASE HasFreeQueue(f) /\ Visit(x)
  <2>1. x \in Options
    <3>1. f \in Families /\ used[f] < families[f].count
      BY <1>5 DEF HasFreeQueue
    <3>2. f \in Nat
      BY <3>1, FamiliesAre DEF Searched
    <3>3. Declined \in Options
      BY DEF Options, Choice, Declined
    <3>4. used[f] \in Nat
      BY <1>2, <3>1, <3>3, UsedEarlier DEF SearchInv
    <3> HIDE DEF f
    <3>5. x \in Choice /\ x.accepted /\ x.family = f /\ x.queue = used[f]
      BY <3>2, <3>4 DEF Choice
    <3> QED BY <3>1, <3>5 DEF Options
  <2> HIDE DEF x
  <2>2. FirstMeans(x)
    BY <1>4, <1>5, <2>1 DEF FirstMeans
  <2> QED BY <1>1, <1>2, <1>5, <2>2, Visits
<1>6. CASE ~HasFreeQueue(f) /\ pending' = Done /\ UNCHANGED <<choices, used, level, budgetVars>>
  <2>1. UNCHANGED limit
    BY <1>6 DEF budgetVars
  <2> HIDE DEF x
  <2> QED BY <1>1, <1>2, <1>4, <1>6, <2>1, FirstImpossible
<1> QED BY <1>1, <1>5, <1>6

LEMMA DeclineStep ==
    ASSUME Searched, SearchInv, TryDecline
    PROVE  SearchInv'
<1> DEFINE first == Head(pending[level])
<1>1. /\ pending[level] # <<>> /\ first.do = "decline" /\ UNCHANGED <<Fixed, solutions>>
      /\ Visit(Declined)
  BY SearchFrame DEF TryDecline, Searching
<1>2. /\ level <= Len(order) /\ Current \in Ids /\ request[Current].strength = "optional"
  BY <1>1, FirstIs DEF Permitted
<1>3. Declined \in Options /\ ~Declined.accepted
  BY DEF Options, Choice, Declined
<1>4. \A y : Leads(first, y) <=> ~y.accepted
  BY <1>1 DEF Leads
<1>5. \A y \in Options : ~y.accepted => y = Declined
  BY DEF Options
<1>6. MayChoose(Declined)
  BY <1>2, <1>3, LegalNext DEF SearchInv
<1>7. FirstMeans(Declined)
  BY <1>3, <1>4, <1>5, <1>6 DEF FirstMeans
<1> QED BY <1>1, <1>2, <1>7, Visits


(* The families tried for a request: those it may use that have a queue     *)
(* left, each once.                                                         *)
LEMMA CandidatesAre ==
    ASSUME Searched, NEW c \in Ids
    PROVE  LET r == request[c] IN
           /\ Candidates(r) \in Seq(Nat) /\ IsInjective(Candidates(r))
           /\ Range(Candidates(r)) = {f \in Families : Suits(f, r) /\ HasFreeQueue(f)}
<1> DEFINE r == request[c]
           preferred == r.preferred
           all == [k \in 1..Cardinality(Families) |-> k - 1]
           others == Kept(all, Families \ Range(preferred))
           usable == {f \in Families : Suits(f, r) /\ HasFreeQueue(f)}
<1>1. preferred \in Seq(Nat) /\ IsInjective(preferred)
  BY WellFormed DEF Searched, Request
<1>2. all \in Seq(Nat) /\ IsInjective(all) /\ Range(all) = Families
  <2> DEFINE n == Cardinality(Families)
  <2>1. n \in Nat /\ Families = 0..n - 1
    BY FamiliesAre DEF Searched
  <2> HIDE DEF n
  <2>2. DOMAIN [k \in 1..n |-> k - 1] = 1..n /\ \A k \in 1..n : [i \in 1..n |-> i - 1][k] = k - 1
    OBVIOUS
  <2>3. [k \in 1..n |-> k - 1] \in Seq(Nat)
    BY <2>1
  <2>4. IsInjective([k \in 1..n |-> k - 1])
    BY <2>1, <2>2 DEF IsInjective
  <2>5. Range([k \in 1..n |-> k - 1]) = 0..n - 1
    <3>1. \A k \in 1..n : k - 1 \in 0..n - 1
      BY <2>1
    <3>2. \A f \in 0..n - 1 : f + 1 \in 1..n /\ (f + 1) - 1 = f
      BY <2>1
    <3> QED BY <2>2, <3>1, <3>2 DEF Range
  <2> QED BY <2>1, <2>3, <2>4, <2>5 DEF n
<1> HIDE DEF all, preferred
<1>3. others \in Seq(Nat) /\ IsInjective(others) /\ Range(others) = Families \ Range(preferred)
  <2>1. Range(all) \cap (Families \ Range(preferred)) = Families \ Range(preferred)
    BY <1>2
  <2> QED BY <1>2, <2>1, KeptIs
<1> HIDE DEF others
<1>4. Inspected(r) = preferred \o others
  BY DEF Inspected, preferred, others, all
<1>5. /\ Inspected(r) \in Seq(Nat) /\ IsInjective(Inspected(r)) /\ Families \subseteq Range(Inspected(r))
  <2>1. Range(preferred) \cap Range(others) = {}
    BY <1>3
  <2> QED BY <1>1, <1>3, <1>4, <2>1, JoinIs
<1>6. Candidates(r) = Kept(Inspected(r), usable)
  BY DEF Candidates
<1> HIDE DEF r
<1>7. Range(Inspected(r)) \cap usable = usable
  BY <1>5
<1> HIDE DEF usable
<1>8. /\ Candidates(r) \in Seq(Nat) /\ IsInjective(Candidates(r)) /\ Range(Candidates(r)) = usable
  <2> DEFINE seen == Inspected(r)
  <2>1. seen \in Seq(Nat) /\ IsInjective(seen) /\ Range(seen) \cap usable = usable
    BY <1>5, <1>7
  <2>2. Candidates(r) = Kept(seen, usable)
    BY <1>6
  <2> HIDE DEF seen
  <2>3. /\ Kept(seen, usable) \in Seq(Nat) /\ IsInjective(Kept(seen, usable))
        /\ Range(Kept(seen, usable)) = Range(seen) \cap usable
    BY <2>1, KeptIs
  <2> QED BY <2>1, <2>2, <2>3
<1> QED BY <1>8 DEF r, usable

LEMMA InspectStep ==
    ASSUME Searched, SearchInv, InspectFamilies
    PROVE  SearchInv'
<1> DEFINE first == Head(pending[level])
           c == Current
           r == request[Current]
           cost == Len(r.preferred) + Cardinality(Families)
           takes == [k \in DOMAIN Candidates(r) |-> Take(Candidates(r)[k])]
           rest == Tail(pending[level])
           items == takes \o rest
           found == Candidates(r)
           usable == {f \in Families : Suits(f, r) /\ HasFreeQueue(f)}
<1>1. /\ pending[level] # <<>> /\ first.do = "inspect"
      /\ UNCHANGED <<Fixed, level, choices, used, solutions>>
      /\ \/ Consume(cost) /\ pending' = [pending EXCEPT ![level] = items]
         \/ OutOfWork(cost) /\ pending' = Done
  <2>1. /\ pending[level] # <<>> /\ first.do = "inspect"
        /\ UNCHANGED <<inputVars, request, relationVars, level, choices, used, solutions>>
    BY DEF InspectFamilies, Searching
  <2>2. \/ Consume(cost) /\ pending' = [pending EXCEPT ![level] = items]
        \/ OutOfWork(cost) /\ pending' = Done
    BY DEF InspectFamilies
  <2> HIDE DEF items, cost
  <2> QED BY <2>1, <2>2 DEF inputVars, relationVars, Fixed
<1> HIDE DEF cost
<1>2. /\ level <= Len(order) /\ c \in Ids /\ Permitted(first, c)
      /\ pending[level] \in Seq(Items) /\ Exclusive(pending[level])
      /\ level \in 1..Len(order) /\ Len(order) \in Nat
  BY <1>1, FirstIs, OrderIs DEF Searched
<1>3. request[c].alias_policy # "require_alias"
  BY <1>1, <1>2 DEF Permitted
<1>4. CASE OutOfWork(cost) /\ pending' = Done
  <2>1. limit' = TRUE
    BY <1>4 DEF OutOfWork
  <2> QED BY <1>1, <2>1, <1>4, FirstDropped
<1>5. CASE Consume(cost) /\ pending' = [pending EXCEPT ![level] = items]
  <2>1. found \in Seq(Nat) /\ IsInjective(found) /\ Range(found) = usable
    BY <1>2, CandidatesAre
  <2> HIDE DEF found
  <2>2. /\ takes \in Seq(Items) /\ DOMAIN takes = DOMAIN found
        /\ \A k \in DOMAIN takes : takes[k] = Take(found[k]) /\ found[k] \in usable /\ found[k] \in Nat
    <3>1. DOMAIN found = 1..Len(found) /\ Len(found) \in Nat /\ \A k \in DOMAIN found : found[k] \in Nat
      BY <2>1
    <3>2. takes = [k \in DOMAIN found |-> Take(found[k])]
      BY DEF found
    <3>3. \A k \in DOMAIN found : Take(found[k]) \in Items
      BY <3>1 DEF Take, Items
    <3>4. \A k \in DOMAIN found : found[k] \in usable
      BY <2>1 DEF Range
    <3> HIDE DEF takes
    <3>5. takes \in Seq(Items)
      BY <3>1, <3>2, <3>3
    <3> QED BY <3>1, <3>2, <3>4, <3>5
  <2> HIDE DEF takes, rest, first, usable, r
  <2>3. \A f, x : Leads(Take(f), x) <=> Distinct(x) /\ x.family = f
    BY DEF Leads, Take
  <2>4. \A x : LeadsAny(takes, x) <=> Distinct(x) /\ x.family \in usable
    <3>1. ASSUME NEW x, LeadsAny(takes, x) PROVE Distinct(x) /\ x.family \in usable
      BY <2>2, <2>3, <3>1 DEF LeadsAny
    <3>2. ASSUME NEW x, Distinct(x), x.family \in usable PROVE LeadsAny(takes, x)
      <4>1. PICK k \in DOMAIN found : found[k] = x.family
        BY <2>1, <3>2 DEF Range
      <4> QED BY <2>2, <2>3, <3>2, <4>1 DEF LeadsAny
    <3> QED BY <3>1, <3>2
  <2>5. /\ rest \in Seq(Items) /\ Exclusive(rest)
        /\ \A x : LeadsAny(pending[level], x) <=> Leads(first, x) \/ LeadsAny(rest, x)
        /\ \A x \in Options : Leads(first, x) => ~LeadsAny(rest, x)
        /\ \A k \in DOMAIN rest : Sensible(rest[k], level)
    <3>1. \A k \in DOMAIN pending[level] : Sensible(pending[level][k], level)
      <4>1. level \in 1..level
        BY <1>2
      <4> QED BY <4>1 DEF SearchInv, TasksInv
    <3> QED BY <1>1, <1>2, <3>1, RestIs DEF rest, first
  <2>6. \A x : Leads(first, x) <=> Distinct(x)
    BY <1>1 DEF Leads, first
  <2>7. /\ items \in Seq(Items) /\ Range(items) = Range(takes) \cup Range(rest)
        /\ IsInjective(takes) /\ IsInjective(rest) /\ Range(takes) \cap Range(rest) = {} => IsInjective(items)
    BY <2>2, <2>5, JoinIs
  <2>8. \A x : LeadsAny(items, x) <=> LeadsAny(takes, x) \/ LeadsAny(rest, x)
    <3>1. \A seq, x : LeadsAny(seq, x) <=> \E item \in Range(seq) : Leads(item, x)
      BY DEF LeadsAny, Range
    <3> HIDE DEF items
    <3> QED BY <2>7, <3>1
  <2>9. Exclusive(items)
    <3> DEFINE m == Len(takes)
               n == Len(rest)
    <3>1. /\ m \in Nat /\ n \in Nat /\ DOMAIN takes = 1..m /\ DOMAIN rest = 1..n /\ DOMAIN items = 1..m + n
          /\ \A k \in 1..m : items[k] = takes[k]
          /\ \A k \in m + 1..m + n : items[k] = rest[k - m] /\ k - m \in 1..n
      BY <2>2, <2>5
    <3> HIDE DEF m, n, items
    <3>2. \A k \in 1..m + n : k \in 1..m \/ k \in m + 1..m + n
      BY <3>1
    <3>3. ASSUME NEW i \in 1..m, NEW j \in 1..m, i # j, NEW x
          PROVE  ~(Leads(takes[i], x) /\ Leads(takes[j], x))
      <4>1. i \in DOMAIN found /\ j \in DOMAIN found
        BY <2>2, <3>1
      <4>2. found[i] # found[j]
        BY <2>1, <3>3, <4>1 DEF IsInjective
      <4>3. takes[i] = Take(found[i]) /\ takes[j] = Take(found[j])
        BY <2>2, <3>1
      <4> QED BY <2>3, <4>2, <4>3
    <3>4. ASSUME NEW i \in 1..m, NEW j \in 1..n, NEW x \in Options
          PROVE  ~(Leads(takes[i], x) /\ Leads(rest[j], x))
      <4>1. Leads(takes[i], x) => Leads(first, x)
        BY <2>2, <2>3, <2>6, <3>1
      <4>2. Leads(rest[j], x) => LeadsAny(rest, x)
        BY <3>1 DEF LeadsAny
      <4> QED BY <2>5, <4>1, <4>2
    <3>5. ASSUME NEW i \in 1..n, NEW j \in 1..n, i # j, NEW x \in Options
          PROVE  ~(Leads(rest[i], x) /\ Leads(rest[j], x))
      BY <2>5, <3>1, <3>5 DEF Exclusive
    <3>6. ASSUME NEW i \in 1..m + n, NEW j \in 1..m + n, i # j, NEW x \in Options
          PROVE  ~(Leads(items[i], x) /\ Leads(items[j], x))
      <4>1. CASE i \in 1..m /\ j \in 1..m
        BY <3>1, <3>3, <3>6, <4>1
      <4>2. CASE i \in 1..m /\ j \in m + 1..m + n
        BY <3>1, <3>4, <4>2
      <4>3. CASE i \in m + 1..m + n /\ j \in 1..m
        BY <3>1, <3>4, <4>3
      <4>4. CASE i \in m + 1..m + n /\ j \in m + 1..m + n
        <5>1. i - m # j - m
          BY <3>1, <3>6, <4>4
        <5> QED BY <3>1, <3>5, <4>4, <5>1
      <4> QED BY <3>2, <4>1, <4>2, <4>3, <4>4
    <3> QED BY <3>1, <3>6 DEF Exclusive
  <2>10. \A k \in DOMAIN items : Sensible(items[k], level)
    <3>1. ASSUME NEW k \in DOMAIN takes PROVE Sensible(takes[k], level)
      <4>1. ASSUME NEW f \in usable PROVE Permitted(Take(f), c)
        BY <1>3 DEF Permitted, Take, usable, r
      <4>2. ~(level > Len(order)) /\ c = order[level]
        BY <1>2 DEF Current
      <4> QED BY <2>2, <4>1, <4>2 DEF Sensible
    <3>2. /\ \A item \in Range(takes) : Sensible(item, level)
          /\ \A item \in Range(rest) : Sensible(item, level)
      BY <2>5, <3>1 DEF Range
    <3>3. \A k \in DOMAIN items : items[k] \in Range(items)
      BY DEF Range
    <3> HIDE DEF items
    <3> QED BY <2>7, <3>2, <3>3
  <2> HIDE DEF items
  <2>11. \A x : LeadsAny(items, x) => LeadsAny(pending[level], x)
    BY <2>4, <2>5, <2>6, <2>8
  <2>12. ASSUME NEW s \in Complete, Follows(s, level), LeadsAny(pending[level], s[order[level]])
         PROVE  LeadsAny(items, s[order[level]])
    <3> DEFINE x == s[c]
    <3>1. x \in Options /\ MayChoose(x) /\ x = s[order[level]]
      BY <1>2, <2>12, FollowersMay DEF SearchInv, Current
    <3>2. CASE Distinct(x)
      <4>1. Suits(x.family, r) /\ HasFreeQueue(x.family)
        BY <1>2, <3>1, <3>2, LegalNext DEF SearchInv, Distinct, r
      <4>2. x.family \in usable
        BY <4>1 DEF usable, HasFreeQueue
      <4> HIDE DEF x
      <4> QED BY <2>4, <2>8, <3>1, <3>2, <4>2
    <3>3. CASE ~Distinct(x)
      <4> HIDE DEF x
      <4> QED BY <2>5, <2>6, <2>8, <2>12, <3>1, <3>3
    <3> QED BY <3>2, <3>3
  <2>13. limit' \in BOOLEAN /\ (limit => limit')
    BY <1>5 DEF Consume, SearchInv, SearchTypes
  <2> QED BY <1>1, <1>5, <2>7, <2>9, <2>10, <2>11, <2>12, <2>13, SameLevel
<1> QED BY <1>1, <1>4, <1>5


(* The choices of every request, each legal, are a complete allocation that *)
(* was not retained before, and the search does not come back to it.        *)
LEMMA RetainStep ==
    ASSUME Searched, SearchInv, Retain
    PROVE  SearchInv'
<1> DEFINE first == Head(pending[level])
           rest == Tail(pending[level])
<1>1. /\ pending[level] # <<>> /\ first.do = "leaf" /\ pending' = Done
      /\ UNCHANGED <<Fixed, level, choices, used>>
      /\ \/ limit' = TRUE /\ UNCHANGED solutions
         \/ UNCHANGED limit /\ solutions' = Append(solutions, choices)
  BY DEF Retain, Searching, OutOfWork, Consume, inputVars, relationVars, Fixed
<1>2. /\ level = Len(order) + 1 /\ first = Leaf /\ pending[level] \in Seq(Items)
      /\ Exclusive(pending[level])
  BY <1>1, FirstIs
<1>3. /\ Len(order) \in Nat /\ level - 1 = Len(order) /\ level \in 1..level
      /\ \A l \in 1..level : l \in 1..level - 1 \/ l = level
      /\ choices \in [Ids -> Options] /\ limit \in BOOLEAN
  BY <1>2, OrderIs DEF Searched, SearchInv, SearchTypes
<1>4. \A y : Leads(first, y)
  BY <1>1 DEF Leads
<1>5. CASE limit' = TRUE /\ UNCHANGED solutions
  BY <1>1, <1>5, FirstDropped
<1>6. CASE UNCHANGED limit /\ solutions' = Append(solutions, choices)
  <2>1. /\ rest \in Seq(Items) /\ Exclusive(rest)
        /\ \A x : LeadsAny(pending[level], x) <=> Leads(first, x) \/ LeadsAny(rest, x)
        /\ \A x \in Options : Leads(first, x) => ~LeadsAny(rest, x)
        /\ \A k \in DOMAIN rest : Sensible(rest[k], level)
    <3>1. \A k \in DOMAIN pending[level] : Sensible(pending[level][k], level)
      BY <1>3 DEF SearchInv, TasksInv
    <3> QED BY <1>1, <1>2, <3>1, RestIs
  <2>2. \A y : ~LeadsAny(rest, y)
    <3>1. Declined \in Options
      BY DEF Options, Choice, Declined
    <3>2. \A k \in DOMAIN rest : rest[k] = Leaf
      BY <1>2, <1>3, <2>1 DEF Sensible
    <3>3. DOMAIN rest = {}
      BY <1>2, <1>4, <2>1, <3>1, <3>2 DEF LeadsAny
    <3> QED BY <3>3 DEF LeadsAny
  <2> HIDE DEF rest, first
  <2>3. /\ (SearchTypes /\ PathInv /\ TasksInv)'
        /\ \A l \in 1..level - 1 : pending'[l] = pending[l]
        /\ pending'[level] = rest
    <3>1. pending' = [pending EXCEPT ![level] = rest]
      BY <1>1 DEF Done, rest
    <3>2. limit' \in BOOLEAN
      BY <1>3, <1>6
    <3> QED BY <1>1, <2>1, <3>1, <3>2, SameLevelKeeps
  <2>4. choices \in Complete
    <3>1. \A c \in Ids : Legal(choices, c)
      <4>1. \A j \in 1..Len(order) : Legal(choices, order[j])
        BY <1>3 DEF SearchInv, PathInv
      <4> QED BY <4>1, OrderIs DEF Searched
    <3> QED BY <1>3, <3>1, CompleteIs DEF Searched
  <2>5. choices \notin Range(solutions)
    <3>1. Waiting(choices)
      BY <1>3, <1>4, <2>1 DEF Waiting, Follows
    <3> QED BY <3>1 DEF SearchInv, RetainedInv
  <2>6. /\ solutions' \in Seq(Complete) /\ IsInjective(solutions')
        /\ Range(solutions') = Range(solutions) \cup {choices}
    BY <1>6, <2>4, <2>5, OneMore DEF SearchInv, RetainedInv
  <2>7. /\ order' = order /\ level' = level /\ choices' = choices /\ Complete' = Complete
        /\ \A s, l : Follows(s, l)' <=> Follows(s, l)
    BY <1>1, FixedMeans DEF Fixed, Follows
  <2>8. ASSUME NEW s, Waiting(s)'
        PROVE  Waiting(s) /\ s # choices
    <3>1. PICK l \in 1..level : Follows(s, l) /\ LeadsAny(pending'[l], s[order[l]])
      BY <2>7, <2>8 DEF Waiting
    <3>2. l \in 1..level - 1 /\ LeadsAny(pending[l], s[order[l]])
      BY <1>3, <2>2, <2>3, <3>1
    <3>3. s # choices
      BY <3>2 DEF SearchInv, TasksInv
    <3> QED BY <3>1, <3>2, <3>3 DEF Waiting
  <2>9. ASSUME NEW s \in Complete, Waiting(s), s # choices PROVE Waiting(s)'
    <3>1. PICK l \in 1..level : Follows(s, l) /\ LeadsAny(pending[l], s[order[l]])
      BY <2>9 DEF Waiting
    <3>2. CASE l \in 1..level - 1
      <4>1. LeadsAny(pending'[l], s[order[l]])
        BY <2>3, <3>1, <3>2
      <4> QED BY <2>7, <3>1, <4>1 DEF Waiting
    <3>3. CASE l = level
      <4>1. \A j \in 1..Len(order) : s[order[j]] = choices[order[j]]
        BY <1>3, <3>1, <3>3 DEF Follows
      <4>2. \A c \in Ids : s[c] = choices[c]
        BY <4>1, OrderIs DEF Searched
      <4>3. s \in [Ids -> Options]
        BY CompleteIs DEF Searched
      <4> QED BY <1>3, <2>9, <4>2, <4>3
    <3> QED BY <1>3, <3>2, <3>3
  <2>10. \A s \in Range(solutions) : s \in Complete /\ ~Waiting(s)
    BY DEF SearchInv, RetainedInv, Range
  <2>11. \A s \in Range(solutions') : ~Waiting(s)'
    BY <2>6, <2>8, <2>10
  <2>12. ~limit' => \A s \in Complete' : s \in Range(solutions') \/ Waiting(s)'
    BY <1>6, <2>6, <2>7, <2>9 DEF SearchInv, RetainedInv
  <2>13. RetainedInv'
    BY <2>6, <2>7, <2>11, <2>12 DEF RetainedInv
  <2> QED BY <2>3, <2>13 DEF SearchInv
<1> QED BY <1>1, <1>5, <1>6

(* Everything below is done: the choice above it is undone.                 *)
LEMMA ReturnStep ==
    ASSUME Searched, SearchInv, Return
    PROVE  SearchInv'
<1> DEFINE n == Len(order)
           up == level - 1
           c == order[level - 1]
           x == choices[c]
<1>1. /\ level > 1 /\ pending[level] = <<>> /\ level' = up
      /\ used' = IF Distinct(x) THEN [used EXCEPT ![x.family] = @ - 1] ELSE used
      /\ choices' = [choices EXCEPT ![c] = Declined]
      /\ pending' = pending /\ limit' = limit /\ solutions' = solutions
      /\ families' = families /\ request' = request /\ order' = order /\ UNCHANGED Fixed
  BY DEF Return, inputVars, relationVars, budgetVars, Fixed
<1>2. /\ n \in Nat /\ level \in 1..n + 1 /\ n = Len(order)
      /\ pending \in [1..n + 1 -> Seq(Items)] /\ choices \in [Ids -> Options] /\ limit \in BOOLEAN
      /\ used = [f \in Families |-> Cardinality(Holding(choices, f))]
  BY OrderIs DEF SearchInv, SearchTypes, Searched
<1> HIDE DEF n
<1>3. /\ up \in Nat /\ up \in 1..n /\ up + 1 = level /\ c = order[up]
      /\ \A l \in 1..up : l \in 1..level /\ l \in 1..level - 1
      /\ \A l \in 1..level : l \in 1..up \/ l = level
      /\ \A j \in 1..up - 1 : j \in 1..n /\ j # up /\ j \in 1..level - 1
      /\ \A j \in up..n : j = up \/ j \in level..n
  BY <1>1, <1>2
<1> HIDE DEF up
<1>4. /\ c \in Ids /\ choices' \in [Ids -> Options] /\ choices'[c] = Declined
      /\ \A d \in Ids \ {c} : choices'[d] = choices[d]
      /\ \A j \in 1..n : j # up => order[j] # c /\ order[j] \in Ids
  <2>1. Declined \in Options
    BY DEF Options, Choice, Declined
  <2>2. c \in Ids /\ \A j \in 1..n : j # up => order[j] # c /\ order[j] \in Ids
    BY <1>2, <1>3, OrderIs DEF Searched
  <2> HIDE DEF c
  <2> QED BY <1>1, <1>2, <2>1, <2>2
<1>5. \A j \in 1..n : j # up => choices'[order[j]] = choices[order[j]]
  BY <1>4
<1> HIDE DEF c
<1>6. SearchTypes'
  <2>1. used' = [f \in Families |-> Cardinality(Holding(choices', f))]
    <3>1. ASSUME NEW f \in Families
          PROVE  /\ Distinct(x) /\ x.family = f =>
                      Cardinality(Holding(choices', f)) = Cardinality(Holding(choices, f)) - 1
                 /\ ~(Distinct(x) /\ x.family = f) => Holding(choices', f) = Holding(choices, f)
      <4>1. IsFiniteSet(Holding(choices, f))
        <5>1. IsFiniteSet(Ids) /\ Holding(choices, f) \subseteq Ids
          BY DEF Searched, Normalized, Holding
        <5> QED BY <5>1, FS_Subset
      <4>2. ~Distinct(choices'[c])
        BY <1>4 DEF Distinct, Declined
      <4>3. Distinct(x) /\ x.family = f =>
              c \in Holding(choices, f) /\ Holding(choices', f) = Holding(choices, f) \ {c}
        BY <1>4, <4>2 DEF Holding
      <4>4. ~(Distinct(x) /\ x.family = f) => Holding(choices', f) = Holding(choices, f)
        BY <1>4, <4>2 DEF Holding
      <4> QED BY <4>1, <4>3, <4>4, FS_RemoveElement
    <3>2. DOMAIN used = Families /\ \A f \in Families : used[f] = Cardinality(Holding(choices, f))
      BY <1>2
    <3>3. CASE Distinct(x)
      <4>1. used' = [used EXCEPT ![x.family] = @ - 1]
        BY <1>1, <3>3
      <4> HIDE DEF x
      <4>2. used' = [f \in Families |-> IF f = x.family THEN used[f] - 1 ELSE used[f]]
        BY <3>2, <4>1
      <4>3. \A f \in Families : Cardinality(Holding(choices', f)) = IF f = x.family THEN used[f] - 1 ELSE used[f]
        BY <3>1, <3>2, <3>3
      <4> QED BY <4>2, <4>3
    <3>4. CASE ~Distinct(x)
      <4>1. \A f \in Families : Holding(choices', f) = Holding(choices, f)
        BY <3>1, <3>4
      <4>2. used' = [f \in Families |-> Cardinality(Holding(choices, f))]
        BY <1>1, <1>2, <3>4
      <4> QED BY <4>1, <4>2
    <3> QED BY <3>3, <3>4
  <2>2. Families' = Families /\ Ids' = Ids /\ Options' = Options
    BY <1>1, FixedMeans DEF Families
  <2>3. \A f : Holding(choices, f)' = Holding(choices', f)
    BY <2>2 DEF Holding
  <2>4. used' = [f \in Families |-> Cardinality(Holding(choices, f))]'
    BY <2>1, <2>2, <2>3
  <2>5. up \in 1..n + 1
    BY <1>2, <1>3
  <2> QED BY <1>1, <1>2, <1>4, <2>2, <2>4, <2>5 DEF SearchTypes
<1>7. PathInv'
  <2>1. ASSUME NEW j \in 1..up - 1 PROVE Legal(choices', order[j])
    <3>1. \A i \in 1..j : choices'[order[i]] = choices[order[i]]
      <4>1. \A i \in 1..j : i \in 1..n /\ i # up
        BY <1>2, <1>3
      <4> QED BY <1>5, <4>1
    <3>2. j \in 1..Len(order)
      BY <1>2, <1>3
    <3>3. Legal(choices', order[j]) <=> Legal(choices, order[j])
      BY <3>1, <3>2, LegalDepends DEF Searched
    <3> QED BY <1>3, <3>3 DEF SearchInv, PathInv
  <2>2. ASSUME NEW j \in up..n PROVE choices'[order[j]] = Declined
    <3>1. CASE j = up
      BY <1>3, <1>4, <3>1
    <3>2. CASE j \in level..n
      <4>1. j \in 1..n /\ j # up
        BY <1>2, <1>3, <3>2
      <4> QED BY <1>2, <1>5, <3>2, <4>1 DEF SearchInv, PathInv
    <3> QED BY <1>3, <3>1, <3>2
  <2> QED BY <1>1, <1>2, <2>1, <2>2, FixedMeans DEF PathInv
<1>8. TasksInv'
  <2>1. \A l \in 1..up : Exclusive(pending[l]) /\ \A k \in DOMAIN pending[l] : Sensible(pending[l][k], l)
    BY <1>3 DEF SearchInv, TasksInv
  <2>2. ASSUME NEW l \in 1..up - 1 PROVE ~LeadsAny(pending[l], choices'[order[l]])
    BY <1>3, <1>5 DEF SearchInv, TasksInv
  <2> QED BY <1>1, <2>1, <2>2, FixedMeans DEF TasksInv
<1>9. ASSUME NEW s, NEW l \in 1..up PROVE Follows(s, l)' <=> Follows(s, l)
  <2>1. \A j \in 1..l - 1 : j \in 1..n /\ j # up
    BY <1>2, <1>3
  <2>2. \A j \in 1..l - 1 : choices'[order[j]] = choices[order[j]]
    BY <1>5, <2>1
  <2> QED BY <1>1, <2>2 DEF Follows
<1>10. ASSUME NEW s PROVE Waiting(s)' <=> Waiting(s)
  <2>1. Waiting(s)' <=> \E l \in 1..up : Follows(s, l)' /\ LeadsAny(pending[l], s[order[l]])
    BY <1>1 DEF Waiting
  <2>2. ~LeadsAny(pending[level], s[order[level]])
    BY <1>1 DEF LeadsAny
  <2>3. Waiting(s) <=> \E l \in 1..up : Follows(s, l) /\ LeadsAny(pending[l], s[order[l]])
    BY <1>3, <2>2 DEF Waiting
  <2> QED BY <1>9, <2>1, <2>3
<1>11. RetainedInv'
  BY <1>1, <1>10, FixedMeans DEF SearchInv, RetainedInv
<1> QED BY <1>6, <1>7, <1>8, <1>11 DEF SearchInv

(* Ordered requests: the search begins with every allocation to come.       *)
LEMMA BeginStep ==
    ASSUME families \in Inventories, Normalized, RelationsInv, SearchBegins,
           solutions = <<>>, limit = FALSE
    PROVE  (Searched /\ SearchInv)'
<1>1. /\ visiting = <<>> /\ \A c \in Ids : marks[c] = 2
      /\ level' = 1
      /\ pending' = [l \in 1..Len(order) + 1 |-> IF l = 1 THEN Call(1) ELSE <<>>]
      /\ choices' = [c \in Ids |-> Declined]
      /\ used' = [f \in Families |-> 0]
      /\ solutions' = <<>> /\ limit' = FALSE
      /\ families' = families /\ request' = request /\ order' = order /\ UNCHANGED Fixed
  BY DEF SearchBegins, inputVars, relationVars, budgetVars, Fixed
<1>2. Searched
  BY <1>1 DEF RelationsInv, Searched, OrderInv
<1>3. Len(order) \in Nat /\ 1 \in 1..Len(order) + 1
  BY <1>2, OrderIs DEF Searched
<1>4. /\ Call(1) \in Seq(Items) /\ Exclusive(Call(1))
      /\ \A k \in DOMAIN Call(1) : Sensible(Call(1)[k], 1)
      /\ \A s \in Complete : LeadsAny(Call(1), s[order[1]])
  BY <1>2, <1>3, CallIs
<1>5. SearchTypes'
  <2>1. Declined \in Options
    BY DEF Options, Choice, Declined
  <2>2. choices' \in [Ids -> Options]
    BY <1>1, <2>1
  <2>3. \A f : Holding(choices', f) = {}
    BY <1>1 DEF Holding, Distinct, Declined
  <2>4. Families' = Families /\ Ids' = Ids /\ Options' = Options
    BY <1>1, FixedMeans DEF Families
  <2>5. \A f : Holding(choices, f)' = {}
    BY <2>3, <2>4 DEF Holding
  <2>6. used' = [f \in Families |-> Cardinality(Holding(choices, f))]'
    BY <1>1, <2>4, <2>5, FS_EmptySet
  <2>7. pending' \in [1..Len(order) + 1 -> Seq(Items)]
    BY <1>1, <1>4
  <2> QED BY <1>1, <1>3, <2>2, <2>4, <2>6, <2>7 DEF SearchTypes
<1>6. PathInv'
  <2>1. \A j \in 1..Len(order) : choices'[order[j]] = Declined
    BY <1>1, <1>2, OrderIs DEF Searched
  <2>2. 1..1 - 1 = {}
    OBVIOUS
  <2> QED BY <1>1, <2>1, <2>2, FixedMeans DEF PathInv
<1>7. pending'[1] = Call(1)
  BY <1>1, <1>3
<1>8. TasksInv'
  <2>1. 1..1 - 1 = {} /\ \A l \in 1..1 : l = 1
    OBVIOUS
  <2> QED BY <1>1, <1>4, <1>7, <2>1, FixedMeans DEF TasksInv
<1>9. RetainedInv'
  <2>1. <<>> \in Seq(Complete) /\ IsInjective(<<>>) /\ Range(<<>>) = {}
    BY DEF IsInjective, Range
  <2>2. ASSUME NEW s \in Complete PROVE Waiting(s)'
    <3>1. 1 \in 1..1 /\ 1..1 - 1 = {}
      OBVIOUS
    <3>2. Follows(s, 1)'
      BY <3>1 DEF Follows
    <3>3. LeadsAny(pending'[1], s[order[1]])
      BY <1>4, <1>7
    <3> QED BY <1>1, <3>1, <3>2, <3>3 DEF Waiting
  <2> QED BY <1>1, <2>1, <2>2, FixedMeans DEF RetainedInv
<1> QED BY <1>1, <1>2, <1>5, <1>6, <1>8, <1>9, FixedMeans DEF SearchInv

(* Nothing is left to try: what was retained is all there is.               *)
LEMMA ExhaustedAtEnd ==
    ASSUME Searched, SearchInv, level = 1, pending[1] = <<>>, ~limit
    PROVE  Range(solutions) = Complete
<1>1. \A s : ~Waiting(s)
  <2>1. \A l \in 1..1 : l = 1
    OBVIOUS
  <2> QED BY <2>1 DEF Waiting, LeadsAny
<1>2. Range(solutions) \subseteq Complete
  BY DEF SearchInv, RetainedInv, Range
<1> QED BY <1>1, <1>2 DEF SearchInv, RetainedInv

-----------------------------------------------------------------------------
(* Complete allocations are native                                         *)

LEMMA ChoicesAre ==
    ASSUME Searched, NEW s \in Complete, NEW c \in Ids
    PROVE  /\ s \in [Ids -> Options] /\ s[c] \in Options /\ s[c] \in Choice /\ Legal(s, c)
           /\ s[c].accepted => s[c].family \in Families /\ s[c].queue < families[s[c].family].count
<1>1. s \in [Ids -> Options] /\ s[c] \in Options /\ Legal(s, c)
  BY CompleteIs DEF Searched
<1>2. s[c] \in Choice
  BY <1>1 DEF Options
<1>3. s[c].accepted => s[c].family \in Families /\ s[c].queue < families[s[c].family].count
  BY <1>1 DEF Options, Declined
<1> QED BY <1>1, <1>2, <1>3

(* A queue of its own is the next one: its number counts the earlier ones.  *)
LEMMA QueueCounts ==
    ASSUME Searched, NEW s \in Complete, NEW j \in 1..Len(order), NEW f
    PROVE  LET own == Distinct(s[order[j]]) /\ s[order[j]].family = f IN
           /\ IsFiniteSet(Earlier(s, j, f)) /\ Cardinality(Earlier(s, j, f)) \in Nat
           /\ own => /\ s[order[j]].queue = Cardinality(Earlier(s, j, f))
                     /\ Cardinality(Earlier(s, j + 1, f)) = Cardinality(Earlier(s, j, f)) + 1
           /\ ~own => Earlier(s, j + 1, f) = Earlier(s, j, f)
<1> DEFINE c == order[j]
           own == Distinct(s[c]) /\ s[c].family = f
<1>1. /\ c \in Ids /\ Legal(s, c) /\ Len(order) \in Nat
      /\ \A i \in 1..j - 1 : i \in 1..Len(order) /\ i # j
      /\ \A i \in 1..(j + 1) - 1 : i \in 1..j - 1 \/ i = j
      /\ \A i \in 1..j - 1 : i \in 1..(j + 1) - 1
      /\ j \in 1..(j + 1) - 1
  BY OrderIs, ChoicesAre DEF Searched
<1>2. \A i \in 1..j - 1 : order[i] # c
  BY <1>1, OrderIs DEF Searched
<1>3. IsFiniteSet(Earlier(s, j, f))
  <2>1. IsFiniteSet(Ids) /\ Earlier(s, j, f) \subseteq Ids
    BY DEF Searched, Normalized, Earlier
  <2> QED BY <2>1, FS_Subset
<1>4. own => s[c].queue = Cardinality(Earlier(s, j, f))
  BY <1>1, LegalIs DEF Searched, Distinct
<1>5. own => Earlier(s, j + 1, f) = Earlier(s, j, f) \cup {c} /\ c \notin Earlier(s, j, f)
  BY <1>1, <1>2 DEF Earlier
<1>6. ~own => Earlier(s, j + 1, f) = Earlier(s, j, f)
  BY <1>1 DEF Earlier
<1> QED BY <1>3, <1>4, <1>5, <1>6, FS_AddElement, FS_CardinalityType

(* The queues below the count of a family have been handed out.             *)
LEMMA QueuesContiguous ==
    ASSUME Searched, NEW s \in Complete, NEW f
    PROVE  \A j \in 1..Len(order) + 1 : \A k \in Nat :
              k < Cardinality(Earlier(s, j, f)) =>
                \E d \in Ids : Distinct(s[d]) /\ s[d].family = f /\ s[d].queue = k
<1> DEFINE Out(k) == \E d \in Ids : Distinct(s[d]) /\ s[d].family = f /\ s[d].queue = k
           Good == {n \in Nat : n + 1 <= Len(order) + 1 =>
                       \A k \in Nat : k < Cardinality(Earlier(s, n + 1, f)) => Out(k)}
<1>0. Len(order) \in Nat
  BY OrderIs DEF Searched
<1>1. 0 \in Good
  <2>1. Earlier(s, 0 + 1, f) = {}
    BY DEF Earlier
  <2>2. Cardinality(Earlier(s, 0 + 1, f)) = 0
    BY <2>1, FS_EmptySet
  <2> QED BY <2>2
<1>2. ASSUME NEW n \in Nat, n \in Good PROVE n + 1 \in Good
  <2> SUFFICES ASSUME (n + 1) + 1 <= Len(order) + 1, NEW k \in Nat,
                      k < Cardinality(Earlier(s, (n + 1) + 1, f))
               PROVE  Out(k)
    OBVIOUS
  <2> DEFINE j == n + 1
             own == Distinct(s[order[j]]) /\ s[order[j]].family = f
  <2>1. j \in 1..Len(order) /\ n + 1 <= Len(order) + 1
    BY <1>0
  <2> HIDE DEF Out
  <2>2. \A m \in Nat : m < Cardinality(Earlier(s, j, f)) => Out(m)
    BY <1>2, <2>1
  <2> HIDE DEF j
  <2>3. /\ Cardinality(Earlier(s, j, f)) \in Nat
        /\ own => /\ s[order[j]].queue = Cardinality(Earlier(s, j, f))
                  /\ Cardinality(Earlier(s, j + 1, f)) = Cardinality(Earlier(s, j, f)) + 1
        /\ ~own => Earlier(s, j + 1, f) = Earlier(s, j, f)
    BY <2>1, QueueCounts
  <2>4. k < Cardinality(Earlier(s, j + 1, f))
    BY DEF j
  <2>5. CASE k < Cardinality(Earlier(s, j, f))
    BY <2>2, <2>5
  <2>6. CASE ~(k < Cardinality(Earlier(s, j, f)))
    <3>1. own /\ s[order[j]].queue = k
      BY <2>3, <2>4, <2>6
    <3>2. order[j] \in Ids
      BY <2>1, OrderIs DEF Searched
    <3> QED BY <3>1, <3>2 DEF Out
  <2> QED BY <2>5, <2>6
<1> HIDE DEF Good
<1>3. \A n \in Nat : n \in Good
  BY <1>1, <1>2, NaturalsByInduction
<1>4. ASSUME NEW j \in 1..Len(order) + 1, NEW k \in Nat, k < Cardinality(Earlier(s, j, f))
      PROVE  Out(k)
  <2>1. j - 1 \in Nat /\ (j - 1) + 1 = j /\ j <= Len(order) + 1
    BY <1>0
  <2>2. j - 1 \in Good
    BY <1>3, <2>1
  <2> HIDE DEF Out
  <2> QED BY <1>4, <2>1, <2>2 DEF Good
<1> QED BY <1>4

(* Two requests with queues of their own have different ones.               *)
LEMMA QueuesDiffer ==
    ASSUME Searched, NEW s \in Complete, NEW c \in Ids, NEW d \in Ids,
           Distinct(s[c]), Distinct(s[d]), SameCoordinate(s[c], s[d])
    PROVE  c = d
<1>1. PICK i \in 1..Len(order), j \in 1..Len(order) : c = order[i] /\ d = order[j]
  BY OrderIs DEF Searched
<1>2. ASSUME NEW a \in 1..Len(order), NEW b \in 1..Len(order), a < b,
             Distinct(s[order[a]]), Distinct(s[order[b]]), SameCoordinate(s[order[a]], s[order[b]])
      PROVE  FALSE
  <2> DEFINE f == s[order[a]].family
             A == Earlier(s, a, f)
             B == Earlier(s, b, f)
  <2>1. /\ s[order[a]].family = f /\ s[order[b]].family = f /\ s[order[a]].queue = s[order[b]].queue
    BY <1>2 DEF SameCoordinate
  <2>2. /\ s[order[a]].queue = Cardinality(A) /\ s[order[b]].queue = Cardinality(B)
        /\ Cardinality(A) \in Nat /\ Cardinality(B) \in Nat
        /\ IsFiniteSet(B) /\ Cardinality(Earlier(s, a + 1, f)) = Cardinality(A) + 1
    <3>1. Distinct(s[order[a]]) /\ s[order[a]].family = f
      BY <1>2
    <3>2. Distinct(s[order[b]]) /\ s[order[b]].family = f
      BY <1>2, <2>1
    <3> HIDE DEF f
    <3>3. /\ s[order[a]].queue = Cardinality(A) /\ Cardinality(A) \in Nat
          /\ Cardinality(Earlier(s, a + 1, f)) = Cardinality(A) + 1
      BY <3>1, QueueCounts
    <3>4. s[order[b]].queue = Cardinality(B) /\ Cardinality(B) \in Nat /\ IsFiniteSet(B)
      BY <3>2, QueueCounts
    <3> QED BY <3>3, <3>4
  <2>3. Earlier(s, a + 1, f) \subseteq B
    <3>1. \A k \in 1..(a + 1) - 1 : k \in 1..b - 1
      BY <1>2, OrderIs DEF Searched
    <3> QED BY <3>1 DEF Earlier
  <2>4. Cardinality(Earlier(s, a + 1, f)) <= Cardinality(B)
    BY <2>2, <2>3, FS_Subset
  <2>5. Cardinality(A) + 1 <= Cardinality(B)
    BY <2>2, <2>4
  <2>6. Cardinality(A) = Cardinality(B)
    BY <2>1, <2>2
  <2> HIDE DEF A, B
  <2> QED BY <2>2, <2>5, <2>6
<1>3. SameCoordinate(s[d], s[c])
  BY DEF SameCoordinate
<1>4. i < j \/ j < i \/ i = j
  BY OrderIs DEF Searched
<1> QED BY <1>1, <1>2, <1>3, <1>4

(* An accepted request shares the queue of one that has it for its own, at  *)
(* the same priority.                                                       *)
LEMMA RootExists ==
    ASSUME Searched, NEW s \in Complete
    PROVE  \A c \in Ids : s[c].accepted =>
              \E d \in Ids : /\ Distinct(s[d]) /\ SameCoordinate(s[c], s[d])
                             /\ request[c].priority = request[d].priority
<1> DEFINE Root(c) == \E d \in Ids : /\ Distinct(s[d]) /\ SameCoordinate(s[c], s[d])
                                     /\ request[c].priority = request[d].priority
           Good == {n \in Nat : \A j \in 1..Len(order) : j <= n /\ s[order[j]].accepted => Root(order[j])}
<1>0. Len(order) \in Nat
  BY OrderIs DEF Searched
<1>1. 0 \in Good
  BY <1>0
<1>2. ASSUME NEW n \in Nat, n \in Good PROVE n + 1 \in Good
  <2> SUFFICES ASSUME NEW j \in 1..Len(order), j <= n + 1, s[order[j]].accepted
               PROVE  Root(order[j])
    OBVIOUS
  <2> DEFINE c == order[j]
  <2>1. c \in Ids /\ Legal(s, c) /\ j \in DOMAIN order
    BY OrderIs, ChoicesAre DEF Searched
  <2>2. CASE ~s[c].aliased
    <3>1. Distinct(s[c]) /\ SameCoordinate(s[c], s[c])
      BY <2>2 DEF Distinct, SameCoordinate
    <3> QED BY <2>1, <3>1
  <2>3. CASE s[c].aliased
    <3>1. /\ request[c].alias_policy # "forbid_alias" /\ SameCoordinate(s[c], s[Target(c)])
          /\ request[Target(c)].priority = request[c].priority
      BY <2>1, <2>3, LegalIs DEF Searched
    <3>2. Target(c) # NoName
      BY <2>1, <3>1, WellFormed DEF Searched, Normalized
    <3>3. PICK i \in 1..j - 1 : order[i] = Target(c)
      BY <2>1, <3>2 DEF Searched, OrderInv, TargetsFirst
    <3>4. i \in 1..Len(order) /\ i <= n
      BY <1>0
    <3>5. s[order[i]].accepted
      BY <3>1, <3>3 DEF SameCoordinate
    <3>6. Root(order[i])
      <4> HIDE DEF Root
      <4> QED BY <1>2, <3>4, <3>5
    <3>7. PICK d \in Ids : /\ Distinct(s[d]) /\ SameCoordinate(s[Target(c)], s[d])
                           /\ request[Target(c)].priority = request[d].priority
      BY <3>3, <3>6
    <3>8. SameCoordinate(s[c], s[d])
      BY <3>1, <3>7 DEF SameCoordinate
    <3> HIDE DEF c
    <3>9. Root(c)
      BY <3>1, <3>7, <3>8
    <3> QED BY <3>9 DEF c
  <2> QED BY <2>2, <2>3
<1> HIDE DEF Good, Root
<1>3. \A n \in Nat : n \in Good
  BY <1>1, <1>2, NaturalsByInduction
<1>4. ASSUME NEW c \in Ids, s[c].accepted PROVE Root(c)
  <2>1. PICK j \in 1..Len(order) : c = order[j]
    BY OrderIs DEF Searched
  <2>2. Len(order) \in Good /\ j <= Len(order)
    BY <1>0, <1>3
  <2> QED BY <1>4, <2>1, <2>2 DEF Good
<1> QED BY <1>4 DEF Root

(* Whatever the requests are, a complete allocation is one vkCreateDevice   *)
(* accepts: resolve_queues needs no further check of what it found.         *)
THEOREM CompleteIsNative ==
    ASSUME Searched, NEW s \in Complete
    PROVE  Native(s)
<1>1. ASSUME NEW c \in Ids, s[c].accepted
      PROVE  /\ s[c].family \in Families /\ s[c].queue < families[s[c].family].count
             /\ \A k \in 0..s[c].queue :
                  \E d \in Ids : Distinct(s[d]) /\ s[d].family = s[c].family /\ s[d].queue = k
  <2>1. s[c].family \in Families /\ s[c].queue < families[s[c].family].count
    BY <1>1, ChoicesAre
  <2>2. PICK e \in Ids : Distinct(s[e]) /\ SameCoordinate(s[c], s[e])
    BY <1>1, RootExists
  <2>3. s[e].family = s[c].family /\ s[e].queue = s[c].queue
    BY <2>2 DEF SameCoordinate
  <2>4. PICK j \in 1..Len(order) : e = order[j]
    BY OrderIs DEF Searched
  <2>5. s[e].queue = Cardinality(Earlier(s, j, s[e].family)) /\ s[e].queue \in Nat
    BY <2>2, <2>4, QueueCounts
  <2>6. j \in 1..Len(order) + 1
    BY OrderIs DEF Searched
  <2>7. ASSUME NEW k \in 0..s[c].queue
        PROVE  \E d \in Ids : Distinct(s[d]) /\ s[d].family = s[c].family /\ s[d].queue = k
    <3>1. k \in Nat /\ (k = s[e].queue \/ k < s[e].queue)
      BY <2>3, <2>5
    <3>2. CASE k = s[e].queue
      BY <2>2, <2>3, <3>2
    <3>3. CASE k < s[e].queue
      BY <2>3, <2>5, <2>6, <3>1, <3>3, QueuesContiguous
    <3> QED BY <3>1, <3>2, <3>3
  <2> QED BY <2>1, <2>7
<1>2. ASSUME NEW c \in Ids, NEW d \in Ids, SameCoordinate(s[c], s[d])
      PROVE  request[c].priority = request[d].priority
  <2>1. s[c].accepted /\ s[d].accepted
    BY <1>2 DEF SameCoordinate
  <2>2. PICK a \in Ids : /\ Distinct(s[a]) /\ SameCoordinate(s[c], s[a])
                         /\ request[c].priority = request[a].priority
    BY <2>1, RootExists
  <2>3. PICK b \in Ids : /\ Distinct(s[b]) /\ SameCoordinate(s[d], s[b])
                         /\ request[d].priority = request[b].priority
    BY <2>1, RootExists
  <2>4. SameCoordinate(s[a], s[b])
    BY <1>2, <2>2, <2>3 DEF SameCoordinate
  <2>5. a = b
    BY <2>2, <2>3, <2>4, QueuesDiffer
  <2> QED BY <2>2, <2>3, <2>5
<1> QED BY <1>1, <1>2, QueuesDiffer DEF Native

-----------------------------------------------------------------------------
(* Preferences                                                             *)

(* compare_family_order and compare_alias_policy compare ranks.             *)
LEMMA OrdersAreRanks ==
    ASSUME Normalized, NEW c \in Ids, NEW f, NEW g, NEW a \in BOOLEAN, NEW b \in BOOLEAN
    PROVE  LET r == request[c] IN
           /\ FamilyRank(r, f) \in Nat /\ FamilyRank(r, g) \in Nat
           /\ AliasRank(r, a) \in Nat /\ AliasRank(r, b) \in Nat
           /\ FamilyOrder(r, f, g) = IF FamilyRank(r, f) < FamilyRank(r, g) THEN "better"
                                     ELSE IF FamilyRank(r, g) < FamilyRank(r, f) THEN "worse" ELSE "equal"
           /\ AliasOrder(r, a, b) = IF AliasRank(r, a) < AliasRank(r, b) THEN "better"
                                    ELSE IF AliasRank(r, b) < AliasRank(r, a) THEN "worse" ELSE "equal"
<1> DEFINE r == request[c]
           wish == r.preferred
           n == Len(wish)
<1>1. /\ wish \in Seq(Nat) /\ IsInjective(wish) /\ n \in Nat /\ DOMAIN wish = 1..n
  BY WellFormed DEF Request
<1>2. ASSUME NEW x, x \in Range(wish)
      PROVE  /\ Position(wish, x) \in 1..n /\ wish[Position(wish, x)] = x
  <2>1. \E k \in DOMAIN wish : wish[k] = x
    BY <1>2 DEF Range
  <2> HIDE DEF wish
  <2> QED BY <1>1, <2>1 DEF Position
<1>3. \A x : FamilyRank(r, x) = IF x \in Range(wish) THEN Position(wish, x) ELSE n + 1
  BY DEF FamilyRank
<1>4. FamilyOrder(r, f, g) =
        IF f = g \/ (f \notin Range(wish) /\ g \notin Range(wish)) THEN "equal"
        ELSE IF (f \in Range(wish)) # (g \in Range(wish))
          THEN IF f \in Range(wish) THEN "better" ELSE "worse"
        ELSE IF Position(wish, f) < Position(wish, g) THEN "better" ELSE "worse"
  BY DEF FamilyOrder
<1> HIDE DEF wish, n
<1>5. /\ FamilyRank(r, f) \in Nat /\ FamilyRank(r, g) \in Nat
      /\ f \in Range(wish) => FamilyRank(r, f) <= n
      /\ g \in Range(wish) => FamilyRank(r, g) <= n
  BY <1>1, <1>2, <1>3
<1>6. f \in Range(wish) /\ g \in Range(wish) /\ f # g => FamilyRank(r, f) # FamilyRank(r, g)
  BY <1>2, <1>3
<1>7. FamilyOrder(r, f, g) = IF FamilyRank(r, f) < FamilyRank(r, g) THEN "better"
                             ELSE IF FamilyRank(r, g) < FamilyRank(r, f) THEN "worse" ELSE "equal"
  <2>1. CASE f \in Range(wish) /\ g \in Range(wish)
    BY <1>3, <1>4, <1>5, <1>6, <2>1
  <2>2. CASE f \in Range(wish) /\ g \notin Range(wish)
    BY <1>1, <1>3, <1>4, <1>5, <2>2
  <2>3. CASE f \notin Range(wish) /\ g \in Range(wish)
    BY <1>1, <1>3, <1>4, <1>5, <2>3
  <2>4. CASE f \notin Range(wish) /\ g \notin Range(wish)
    BY <1>1, <1>3, <1>4, <1>5, <2>4
  <2> QED BY <2>1, <2>2, <2>3, <2>4
<1>8. /\ AliasRank(r, a) \in Nat /\ AliasRank(r, b) \in Nat
      /\ AliasOrder(r, a, b) = IF AliasRank(r, a) < AliasRank(r, b) THEN "better"
                               ELSE IF AliasRank(r, b) < AliasRank(r, a) THEN "worse" ELSE "equal"
  <2> DEFINE wants == r.alias_policy \in {"prefer_alias_with_distinct_fallback", "require_alias"}
  <2>1. \A x \in BOOLEAN : AliasRank(r, x) = IF x = wants THEN 1 ELSE 2
    BY DEF AliasRank
  <2>2. AliasOrder(r, a, b) = IF a = b THEN "equal" ELSE IF a = wants THEN "better" ELSE "worse"
    BY DEF AliasOrder
  <2>3. wants \in BOOLEAN
    OBVIOUS
  <2> HIDE DEF wants, r
  <2> QED BY <2>1, <2>2, <2>3
<1> QED BY <1>5, <1>7, <1>8

(* What a comparison of two choices says of how good they are.              *)
LEMMA PreferenceMeans ==
    ASSUME Searched, NEW s \in Complete, NEW t \in Complete, NEW c \in Ids
    PROVE  LET p == Preference(c, s, t) IN
           /\ p \in {"better", "equal"} => AsGood(c, s[c], t[c])
           /\ p = "better" => ~AsGood(c, t[c], s[c])
           /\ p = "equal" => AsGood(c, t[c], s[c])
           /\ p \in {"worse", "incomparable"} => ~AsGood(c, s[c], t[c]) \/ Displaces(c, s, t)
           /\ p \in {"better", "equal", "worse", "incomparable"}
<1> DEFINE p == Preference(c, s, t)
           r == request[c]
           a == s[c]
           b == t[c]
<1>1. /\ a \in Choice /\ b \in Choice /\ r.strength \in Strengths /\ Normalized
  BY ChoicesAre, WellFormed DEF Searched
<1>2. /\ a.accepted \in BOOLEAN /\ b.accepted \in BOOLEAN /\ a.aliased \in BOOLEAN /\ b.aliased \in BOOLEAN
  BY <1>1 DEF Choice
<1>3. \A x, y : AsGood(c, x, y) <=>
        \/ ~y.accepted
        \/ /\ x.accepted
           /\ FamilyRank(r, x.family) <= FamilyRank(r, y.family)
           /\ AliasRank(r, x.aliased) <= AliasRank(r, y.aliased)
  BY DEF AsGood
<1>4. p = CASE ~a.accepted /\ ~b.accepted -> "equal"
      [] a.accepted /\ ~b.accepted -> AcceptanceOrder(c, s, t)
      [] ~a.accepted /\ b.accepted -> Opposite(AcceptanceOrder(c, t, s))
      [] OTHER -> Combined(FamilyOrder(r, a.family, b.family), AliasOrder(r, a.aliased, b.aliased))
  BY DEF Preference
<1> HIDE DEF p, a, b, r
<1>5. CASE ~a.accepted /\ ~b.accepted
  BY <1>3, <1>4, <1>5 DEF p, a, b
<1>6. CASE a.accepted /\ ~b.accepted
  <2>1. p = AcceptanceOrder(c, s, t)
    BY <1>4, <1>6
  <2>2. p \in {"better", "incomparable"}
    BY <2>1 DEF AcceptanceOrder
  <2>3. p = "incomparable" => Displaces(c, s, t)
    <3>1. p = "incomparable" => r.strength # "required" /\ TakenByAnother(t, c, a)
      BY <2>1 DEF AcceptanceOrder, r, a
    <3>2. r.strength # "required" => request[c].strength = "optional"
      BY <1>1 DEF Strengths, r
    <3>3. TakenByAnother(t, c, a) => Distinct(s[c]) /\ \E d \in Ids \ {c} : SameCoordinate(s[c], t[d])
      BY DEF TakenByAnother, SameCoordinate, a
    <3> QED BY <1>6, <3>1, <3>2, <3>3 DEF Displaces, b
  <2>4. AsGood(c, a, b) /\ ~AsGood(c, b, a)
    BY <1>3, <1>6
  <2> QED BY <2>2, <2>3, <2>4 DEF p, a, b
<1>7. CASE ~a.accepted /\ b.accepted
  <2>1. p = Opposite(AcceptanceOrder(c, t, s))
    BY <1>4, <1>7
  <2>2. p \in {"worse", "incomparable"}
    <3>1. AcceptanceOrder(c, t, s) \in {"better", "incomparable"}
      BY DEF AcceptanceOrder
    <3> QED BY <2>1, <3>1 DEF Opposite
  <2>3. ~AsGood(c, a, b)
    BY <1>3, <1>7
  <2> QED BY <2>2, <2>3 DEF p, a, b
<1>8. CASE a.accepted /\ b.accepted
  <2> DEFINE fo == FamilyOrder(r, a.family, b.family)
             ao == AliasOrder(r, a.aliased, b.aliased)
             fa == FamilyRank(r, a.family)
             fb == FamilyRank(r, b.family)
             aa == AliasRank(r, a.aliased)
             ab == AliasRank(r, b.aliased)
  <2>1. p = Combined(fo, ao)
    BY <1>2, <1>4, <1>8
  <2>2. /\ fa \in Nat /\ fb \in Nat /\ aa \in Nat /\ ab \in Nat
        /\ fo = IF fa < fb THEN "better" ELSE IF fb < fa THEN "worse" ELSE "equal"
        /\ ao = IF aa < ab THEN "better" ELSE IF ab < aa THEN "worse" ELSE "equal"
    BY <1>1, <1>2, OrdersAreRanks DEF r
  <2>3. /\ AsGood(c, a, b) <=> fa <= fb /\ aa <= ab
        /\ AsGood(c, b, a) <=> fb <= fa /\ ab <= aa
    BY <1>3, <1>8
  <2>4. p = IF fo = ao THEN fo ELSE IF fo = "equal" THEN ao ELSE IF ao = "equal" THEN fo ELSE "incomparable"
    BY <2>1 DEF Combined
  <2> HIDE DEF fo, ao, fa, fb, aa, ab
  <2>5. /\ p \in {"better", "equal"} => fa <= fb /\ aa <= ab
        /\ p = "better" => ~(fb <= fa /\ ab <= aa)
        /\ p = "equal" => fb <= fa /\ ab <= aa
        /\ p \in {"worse", "incomparable"} => ~(fa <= fb /\ aa <= ab)
        /\ p \in {"better", "equal", "worse", "incomparable"}
    BY <2>2, <2>4
  <2> QED BY <2>3, <2>5 DEF p, a, b
<1> QED BY <1>2, <1>5, <1>6, <1>7, <1>8

\* s serves every request at least as well as t; it does, and t does not.
Above(s, t) == \A c \in Ids : AsGood(c, s[c], t[c])
StrictlyAbove(s, t) == Above(s, t) /\ ~Above(t, s)

LEMMA AboveIsTransitive ==
    ASSUME Searched, NEW s \in Complete, NEW t \in Complete, NEW u \in Complete, Above(s, t), Above(t, u)
    PROVE  Above(s, u)
<1>1. ASSUME NEW c \in Ids PROVE AsGood(c, s[c], u[c])
  <2> DEFINE a == s[c]
             b == t[c]
             d == u[c]
             r == request[c]
  <2>1. AsGood(c, a, b) /\ AsGood(c, b, d)
    BY DEF Above
  <2>2. /\ a.aliased \in BOOLEAN /\ b.aliased \in BOOLEAN /\ d.aliased \in BOOLEAN /\ Normalized
    BY ChoicesAre DEF Choice, Searched
  <2>3. /\ FamilyRank(r, a.family) \in Nat /\ FamilyRank(r, b.family) \in Nat
        /\ FamilyRank(r, d.family) \in Nat
        /\ AliasRank(r, a.aliased) \in Nat /\ AliasRank(r, b.aliased) \in Nat
        /\ AliasRank(r, d.aliased) \in Nat
    BY <2>2, OrdersAreRanks
  <2> HIDE DEF a, b, d
  <2>4. AsGood(c, a, d)
    BY <2>1, <2>3 DEF AsGood
  <2> QED BY <2>4 DEF a, d
<1> QED BY <1>1 DEF Above

(* What dominates is strictly above; what is not dominated by t although it *)
(* is not above it has a reason.                                            *)
LEMMA DominatesMeans ==
    ASSUME Searched, NEW s \in Complete, NEW t \in Complete
    PROVE  /\ Dominates(s, t) => StrictlyAbove(s, t)
           /\ ~Dominates(s, t) => \/ \E c \in Ids : ~AsGood(c, s[c], t[c]) \/ Displaces(c, s, t)
                                  \/ Above(t, s)
<1>1. ASSUME Dominates(s, t) PROVE StrictlyAbove(s, t)
  <2>1. ASSUME NEW c \in Ids PROVE AsGood(c, s[c], t[c])
    <3>1. Preference(c, s, t) \notin {"worse", "incomparable"}
      BY <1>1 DEF Dominates, Objections
    <3> QED BY <3>1, PreferenceMeans
  <2>2. PICK c \in Ids : Preference(c, s, t) = "better"
    BY <1>1 DEF Dominates
  <2>3. ~AsGood(c, t[c], s[c])
    BY <2>2, PreferenceMeans
  <2> QED BY <2>1, <2>3 DEF StrictlyAbove, Above
<1>2. ASSUME ~Dominates(s, t), \A c \in Ids : AsGood(c, s[c], t[c]) /\ ~Displaces(c, s, t)
      PROVE  Above(t, s)
  <2>1. \A c \in Ids : Preference(c, s, t) \in {"better", "equal"}
    BY <1>2, PreferenceMeans
  <2>2. Objections(s, t) = {}
    BY <2>1 DEF Objections
  <2>3. \A c \in Ids : Preference(c, s, t) = "equal"
    BY <1>2, <2>1, <2>2 DEF Dominates
  <2> QED BY <2>3, PreferenceMeans DEF Above
<1> QED BY <1>1, <1>2

\* The complete allocations that no other one dominates.
Unbeaten == {s \in Complete : \A t \in Complete \ {s} : ~Dominates(t, s)}

(* Among finitely many allocations, each has an undominated one above it.   *)
LEMMA UnbeatenAbove ==
    ASSUME Searched, IsFiniteSet(Complete), NEW s \in Complete
    PROVE  \E t \in Unbeaten : t = s \/ StrictlyAbove(t, s)
<1> DEFINE Better(t) == {u \in Complete : StrictlyAbove(u, t)}
           All == {t \in Complete : t = s \/ StrictlyAbove(t, s)}
           Sizes == {Cardinality(Better(t)) : t \in All}
<1>1. ASSUME NEW t \in Complete PROVE IsFiniteSet(Better(t)) /\ Cardinality(Better(t)) \in Nat
  <2>1. Better(t) \subseteq Complete
    OBVIOUS
  <2> QED BY <2>1, FS_Subset, FS_CardinalityType
<1>2. ASSUME NEW t \in Complete, NEW u \in Complete, NEW v \in Complete,
             StrictlyAbove(t, u), StrictlyAbove(u, v)
      PROVE  StrictlyAbove(t, v)
  <2>1. Above(t, v)
    BY <1>2, AboveIsTransitive DEF StrictlyAbove
  <2>2. ASSUME Above(v, t) PROVE FALSE
    <3>1. Above(u, t)
      BY <1>2, <2>2, AboveIsTransitive DEF StrictlyAbove
    <3> QED BY <1>2, <3>1 DEF StrictlyAbove
  <2> QED BY <2>1, <2>2 DEF StrictlyAbove
<1>3. s \in All /\ Sizes # {} /\ Sizes \subseteq Nat
  <2>1. s \in All /\ All \subseteq Complete
    OBVIOUS
  <2> HIDE DEF All, Better
  <2> QED BY <1>1, <2>1
<1> HIDE DEF Better
<1>4. PICK m \in Sizes : \A n \in Sizes : m <= n
  <2> HIDE DEF Sizes
  <2> QED BY <1>3, LeastNatural
<1>5. PICK t \in All : m = Cardinality(Better(t))
  OBVIOUS
<1>6. t \in Complete /\ (t = s \/ StrictlyAbove(t, s))
  OBVIOUS
<1>7. ASSUME NEW u \in Complete, StrictlyAbove(u, t) PROVE FALSE
  <2>1. u \in All
    BY <1>2, <1>6, <1>7
  <2>2. m <= Cardinality(Better(u))
    BY <1>4, <2>1
  <2>3. Better(u) \subseteq Better(t) \ {u} /\ u \in Better(t)
    <3>1. ~StrictlyAbove(u, u)
      BY DEF StrictlyAbove
    <3>2. \A v \in Complete : StrictlyAbove(v, u) => StrictlyAbove(v, t) /\ v # u
      BY <1>2, <1>6, <1>7, <3>1
    <3> QED BY <1>7, <3>2 DEF Better
  <2>4. IsFiniteSet(Better(t) \ {u}) /\ Cardinality(Better(t) \ {u}) = Cardinality(Better(t)) - 1
    BY <1>1, <1>6, <2>3, FS_RemoveElement
  <2>5. Cardinality(Better(u)) <= Cardinality(Better(t) \ {u})
    BY <2>3, <2>4, FS_Subset
  <2>6. m \in Nat /\ Cardinality(Better(u)) \in Nat
    BY <1>1, <1>5, <1>6
  <2> HIDE DEF Sizes
  <2> QED BY <1>5, <2>2, <2>4, <2>5, <2>6
<1>8. t \in Unbeaten
  BY <1>6, <1>7, DominatesMeans DEF Unbeaten
<1> QED BY <1>6, <1>8

-----------------------------------------------------------------------------
(* The comparison                                                          *)

\* Some retained allocation dominates the k-th.
Beaten(k) == \E j \in DOMAIN solutions \ {k} : Dominates(solutions[j], solutions[k])

\* What an answer rests on.
Exhausted == solutions \in Seq(Complete) /\ IsInjective(solutions) /\ Range(solutions) = Complete

\* Kept so far: the undominated ones among the first.
MaximalInv == Range(maximal) = {solutions[k] : k \in {i \in 1..candidate - 1 : ~Beaten(i)}}

CompareInv ==
    /\ candidate \in 1..Len(solutions) + 1 /\ other \in Nat \ {0}
    /\ stage \in {"dominance", "duplicate"}
    /\ maximal \in Seq(Complete) /\ IsInjective(maximal)
    /\ MaximalInv
    /\ stage = "dominance" =>
          \A j \in 1..other - 1 : j \in DOMAIN solutions \ {candidate}
                => ~Dominates(solutions[j], solutions[candidate])
    /\ stage = "duplicate" => candidate \in DOMAIN solutions /\ ~Beaten(candidate)

\* Nothing is compared before the search is over.
Untouched == candidate = 1 /\ other = 1 /\ stage = "dominance" /\ maximal = <<>>

\* What the comparison never changes.
Compared == <<Fixed, solutions>>

LEMMA ComparedMeans ==
    ASSUME UNCHANGED Compared
    PROVE  /\ UNCHANGED Fixed /\ UNCHANGED solutions /\ Complete' = Complete
           /\ \A s, t : Dominates(s, t)' <=> Dominates(s, t)
           /\ \A k : Beaten(k)' <=> Beaten(k)
           /\ Searched => Searched'
           /\ Exhausted => Exhausted'
<1>1. UNCHANGED Fixed /\ UNCHANGED solutions /\ request' = request /\ Ids' = Ids
  BY DEF Compared, Fixed, Ids
<1>2. Complete' = Complete /\ (Searched => Searched')
  BY <1>1, FixedMeans
<1>3. ASSUME NEW s, NEW t PROVE Dominates(s, t)' <=> Dominates(s, t)
  <2>1. \A c : Preference(c, s, t)' = Preference(c, s, t)
    BY <1>1 DEF Preference, AcceptanceOrder, Opposite, TakenByAnother, Combined, FamilyOrder, AliasOrder
  <2> QED BY <1>1, <2>1 DEF Dominates, Objections
<1>4. \A k : Beaten(k)' <=> Beaten(k)
  BY <1>1, <1>3 DEF Beaten
<1> QED BY <1>1, <1>2, <1>3, <1>4 DEF Exhausted

\* One more retained allocation is settled: kept if it is undominated.
Settles ==
    /\ candidate \in DOMAIN solutions
    /\ \/ Beaten(candidate) /\ UNCHANGED maximal
       \/ ~Beaten(candidate) /\ maximal' = Append(maximal, solutions[candidate])
    /\ Against(candidate + 1)

LEMMA SettlesStep ==
    ASSUME Searched, Exhausted, CompareInv, UNCHANGED Compared, Settles
    PROVE  CompareInv'
<1> DEFINE n == Len(solutions)
           Settled(m) == {solutions[k] : k \in {i \in 1..m - 1 : ~Beaten(i)}}
           x == solutions[candidate]
<1>1. /\ n \in Nat /\ n = Len(solutions) /\ DOMAIN solutions = 1..n
      /\ \A k \in 1..n : solutions[k] \in Complete
      /\ \A i, j \in 1..n : solutions[i] = solutions[j] => i = j
  BY DEF Exhausted, IsInjective
<1> HIDE DEF n
<1>2. /\ candidate \in 1..n /\ candidate' = candidate + 1 /\ other' = 1 /\ stage' = "dominance"
      /\ x \in Complete /\ \A k \in 1..candidate - 1 : k \in 1..n /\ k # candidate
      /\ \A k \in 1..(candidate + 1) - 1 : k \in 1..candidate - 1 \/ k = candidate
      /\ \A k \in 1..candidate - 1 : k \in 1..(candidate + 1) - 1
      /\ candidate \in 1..(candidate + 1) - 1 /\ candidate + 1 \in 1..n + 1
      /\ UNCHANGED solutions
  BY <1>1, ComparedMeans DEF Settles, Against
<1>3. x \notin Range(maximal)
  <2>1. Range(maximal) = Settled(candidate)
    BY DEF CompareInv, MaximalInv
  <2> QED BY <1>1, <1>2, <2>1
<1> HIDE DEF x
<1>4. /\ maximal' \in Seq(Complete) /\ IsInjective(maximal')
      /\ Range(maximal') = IF Beaten(candidate) THEN Range(maximal) ELSE Range(maximal) \cup {x}
  <2>1. CASE Beaten(candidate)
    BY <2>1 DEF Settles, CompareInv
  <2>2. CASE ~Beaten(candidate)
    <3>1. maximal' = Append(maximal, x)
      BY <2>2 DEF Settles, x
    <3> QED BY <1>2, <1>3, <2>2, <3>1, OneMore DEF CompareInv
  <2> QED BY <2>1, <2>2
<1>5. Settled(candidate + 1) = IF Beaten(candidate) THEN Settled(candidate) ELSE Settled(candidate) \cup {x}
  BY <1>2 DEF x
<1>6. Range(maximal') = Settled(candidate + 1)
  BY <1>4, <1>5 DEF CompareInv, MaximalInv
<1>7. MaximalInv'
  <2>1. \A i : Beaten(i)' <=> Beaten(i)
    BY ComparedMeans
  <2> DEFINE places == {i \in 1..candidate - 1 : ~Beaten(i)}
             after == {i \in 1..(candidate + 1) - 1 : ~Beaten(i)}
  <2>2. places' = after
    BY <1>2, <2>1
  <2>3. Range(maximal') = {solutions[k] : k \in after}
    BY <1>6
  <2>4. solutions' = solutions
    BY <1>2
  <2> HIDE DEF places, after
  <2>5. {solutions[k] : k \in places}' = {solutions[k] : k \in after}
    BY <2>2, <2>4
  <2> QED BY <2>3, <2>5 DEF places, MaximalInv
<1>8. 1..1 - 1 = {} /\ 1 \in Nat \ {0}
  OBVIOUS
<1> QED BY <1>1, <1>2, <1>4, <1>7, <1>8, ComparedMeans DEF CompareInv

(* The comparison goes on, or is given up.                                  *)
LEMMA CompareStep ==
    ASSUME Searched, Exhausted, CompareInv, phase = "compare", Compare
    PROVE  /\ UNCHANGED Compared
           /\ \/ phase' = "compare" /\ CompareInv' /\ UNCHANGED result
              \/ phase' = "done" /\ result' = Failed("limit")
<1> DEFINE n == Len(solutions)
<1>1. UNCHANGED Compared
  BY DEF Compare, SkipItself, CompareNext, Undominated, CompareDuplicate, KeepMaximal,
         CompareUnchanged, inputVars, relationVars, searchVars, Compared, Fixed
<1>2. /\ n \in Nat /\ n = Len(solutions) /\ DOMAIN solutions = 1..n
      /\ \A k \in 1..n : solutions[k] \in Complete
      /\ candidate \in 1..n + 1 /\ other \in Nat \ {0}
  BY DEF Exhausted, CompareInv
<1> HIDE DEF n
<1>3. ASSUME other' = other + 1, UNCHANGED <<candidate, stage, maximal>>,
             stage = "dominance" => \/ other \notin DOMAIN solutions \ {candidate}
                                    \/ ~Dominates(solutions[other], solutions[candidate])
      PROVE  CompareInv'
  <2>1. \A j \in 1..(other + 1) - 1 : j \in 1..other - 1 \/ j = other
    BY <1>2
  <2>2. other + 1 \in Nat \ {0}
    BY <1>2
  <2>3. stage = "dominance" =>
          \A j \in 1..(other + 1) - 1 : j \in DOMAIN solutions \ {candidate}
                => ~Dominates(solutions[j], solutions[candidate])
    BY <1>3, <2>1 DEF CompareInv
  <2> QED BY <1>1, <1>3, <2>2, <2>3, ComparedMeans DEF CompareInv, MaximalInv
<1>4. CASE SkipItself
  <2>1. UNCHANGED <<candidate, stage, maximal, phase, result>> /\ other' = other + 1 /\ other = candidate
    BY <1>4 DEF SkipItself
  <2> QED BY <1>1, <1>3, <2>1
<1>5. CASE CompareNext
  <2>1. /\ stage = "dominance" /\ candidate <= Len(solutions) /\ other <= Len(solutions)
        /\ other # candidate /\ UNCHANGED maximal
        /\ \/ phase' = "done" /\ result' = Failed("limit")
           \/ /\ Dominates(solutions[other], solutions[candidate]) /\ Against(candidate + 1)
              /\ UNCHANGED <<phase, result>>
           \/ /\ ~Dominates(solutions[other], solutions[candidate]) /\ other' = other + 1
              /\ UNCHANGED <<candidate, stage, phase, result>>
    BY <1>5 DEF CompareNext, Comparing, Fail
  <2>2. candidate \in DOMAIN solutions /\ other \in DOMAIN solutions \ {candidate}
    BY <1>2, <2>1
  <2>3. CASE Dominates(solutions[other], solutions[candidate]) /\ Against(candidate + 1)
    <3>1. Beaten(candidate)
      BY <2>2, <2>3 DEF Beaten
    <3>2. CompareInv'
      BY <1>1, <2>1, <2>2, <2>3, <3>1, SettlesStep DEF Settles
    <3> QED BY <1>1, <2>1, <3>2
  <2> QED BY <1>1, <1>3, <2>1, <2>3
<1>6. CASE Undominated
  <2>1. /\ stage = "dominance" /\ candidate <= Len(solutions) /\ other > Len(solutions)
        /\ stage' = "duplicate" /\ other' = 1 /\ UNCHANGED <<phase, candidate, maximal, result>>
    BY <1>6 DEF Undominated, Comparing
  <2>2. candidate \in DOMAIN solutions
    BY <1>2, <2>1
  <2>3. ~Beaten(candidate)
    <3>1. \A j \in DOMAIN solutions : j \in 1..other - 1
      BY <1>2, <2>1
    <3> QED BY <2>1, <3>1 DEF Beaten, CompareInv
  <2>4. CompareInv'
    BY <1>1, <2>1, <2>2, <2>3, ComparedMeans DEF CompareInv, MaximalInv
  <2> QED BY <1>1, <2>1, <2>4
<1>7. CASE CompareDuplicate
  <2>1. /\ stage = "duplicate" /\ other <= Len(maximal) /\ UNCHANGED maximal
        /\ \/ phase' = "done" /\ result' = Failed("limit")
           \/ maximal[other] = solutions[candidate] /\ UNCHANGED <<phase, result>>
           \/ other' = other + 1 /\ UNCHANGED <<candidate, stage, phase, result>>
    BY <1>7 DEF CompareDuplicate, Comparing, Fail
  <2>2. maximal[other] # solutions[candidate]
    <3>1. other \in DOMAIN maximal
      BY <1>2, <2>1 DEF CompareInv
    <3>2. maximal[other] \in {solutions[k] : k \in {i \in 1..candidate - 1 : ~Beaten(i)}}
      BY <3>1 DEF CompareInv, MaximalInv, Range
    <3>3. PICK k \in 1..candidate - 1 : maximal[other] = solutions[k]
      BY <3>2
    <3>4. k # candidate /\ k \in DOMAIN solutions /\ candidate \in DOMAIN solutions
      BY <1>2, <2>1 DEF CompareInv
    <3> QED BY <3>3, <3>4 DEF Exhausted, IsInjective
  <2> QED BY <1>1, <1>3, <2>1, <2>2
<1>8. CASE KeepMaximal
  <2>1. /\ stage = "duplicate" /\ maximal' = Append(maximal, solutions[candidate])
        /\ Against(candidate + 1) /\ UNCHANGED <<phase, result>>
    BY <1>8 DEF KeepMaximal, Comparing
  <2>2. CompareInv'
    BY <1>1, <2>1, SettlesStep DEF Settles, CompareInv
  <2> QED BY <1>1, <2>1, <2>2
<1> QED BY <1>4, <1>5, <1>6, <1>7, <1>8 DEF Compare

(* Every retained allocation compared: those kept are the undominated ones. *)
LEMMA KeptAreUnbeaten ==
    ASSUME Searched, Exhausted, CompareInv, candidate > Len(solutions)
    PROVE  Range(maximal) = Unbeaten /\ IsInjective(maximal) /\ maximal \in Seq(Complete)
<1>1. /\ Len(solutions) \in Nat /\ DOMAIN solutions = 1..Len(solutions)
      /\ 1..candidate - 1 = DOMAIN solutions
      /\ \A i, j \in DOMAIN solutions : solutions[i] = solutions[j] => i = j
  BY DEF CompareInv, Exhausted, IsInjective
<1>2. \A s : s \in Complete <=> \E k \in DOMAIN solutions : s = solutions[k]
  BY DEF Exhausted, Range
<1>3. ASSUME NEW k \in DOMAIN solutions PROVE ~Beaten(k) <=> solutions[k] \in Unbeaten
  BY <1>1, <1>2 DEF Beaten, Unbeaten
<1>4. Range(maximal) = {solutions[k] : k \in {i \in DOMAIN solutions : ~Beaten(i)}}
  BY <1>1 DEF CompareInv, MaximalInv
<1>5. Unbeaten \subseteq Complete
  BY DEF Unbeaten
<1> QED BY <1>2, <1>3, <1>4, <1>5 DEF CompareInv

-----------------------------------------------------------------------------
(* The invariant, by phase                                                 *)

InputStage ==
    /\ phase = "input" /\ visiting = <<>> /\ order = <<>> /\ solutions = <<>> /\ limit = FALSE
    /\ Untouched /\ result = Failed("none")

RelationsStage ==
    /\ phase = "relations" /\ Normalized /\ RelationsInv
    /\ solutions = <<>> /\ limit = FALSE /\ Untouched /\ result = Failed("none")

SearchStage ==
    /\ phase = "search" /\ Normalized /\ OrderInv /\ SearchInv
    /\ Untouched /\ result = Failed("none")

CompareStage ==
    /\ phase = "compare" /\ Normalized /\ OrderInv /\ Exhausted /\ solutions # <<>> /\ CompareInv
    /\ result = Failed("none")

\* An answer other than a refusal or a limit rests on all complete allocations.
DoneStage ==
    /\ phase = "done"
    /\ solutions # <<>> => Normalized /\ OrderInv /\ solutions \in Seq(Complete)
    /\ result.kind \in {"resolved", "ambiguous", "insufficient"} => Normalized /\ OrderInv /\ Exhausted
    /\ result.kind = "ambiguous" => \A s : Unbeaten # {s}
    /\ result.kind = "resolved" => \E s \in Complete : Unbeaten = {s} /\ result.plan = Plan(s)

Inv ==
    /\ families \in Inventories /\ input \in Inputs
    /\ InputStage \/ RelationsStage \/ SearchStage \/ CompareStage \/ DoneStage

\* The actions of the search that stay in it.
SearchGoesOn == TryAlias \/ InspectFamilies \/ TakeFamily \/ TryDecline \/ Retain \/ Return

LEMMA ActionsByPhase ==
    ASSUME Next
    PROVE  \/ phase = "input" /\ ReadInput
           \/ phase = "relations" /\ (Relations \/ SearchBegins)
           \/ phase = "search" /\ (SearchGoesOn \/ SearchEnds)
           \/ phase = "compare" /\ (Compare \/ Decide)
<1>1. ReadInput => phase = "input"
  BY DEF ReadInput
<1>2. Relations => phase = "relations"
  BY DEF Relations, VisitRoot, VisitTarget, CycleFound, AppendToOrder
<1>3. SearchBegins => phase = "relations"
  BY DEF SearchBegins
<1>4. SearchGoesOn => phase = "search"
  BY DEF SearchGoesOn, TryAlias, InspectFamilies, TakeFamily, TryDecline, Retain, Return, Searching
<1>5. SearchEnds => phase = "search"
  BY DEF SearchEnds
<1>6. Compare => phase = "compare"
  BY DEF Compare, SkipItself, CompareNext, Undominated, CompareDuplicate, KeepMaximal, Comparing
<1>7. Decide => phase = "compare"
  BY DEF Decide
<1> QED BY <1>1, <1>2, <1>3, <1>4, <1>5, <1>6, <1>7 DEF Next, Search, SearchGoesOn

LEMMA NormalizedKept ==
    ASSUME Normalized, UNCHANGED request
    PROVE  Normalized'
<1>1. Ids' = Ids /\ \A c : Target(c)' = Target(c)
  BY DEF Ids, Target
<1> QED BY <1>1 DEF Normalized, Malformed

LEMMA InputStep ==
    ASSUME families \in Inventories, input \in Inputs, InputStage, ReadInput
    PROVE  RelationsStage' \/ DoneStage'
<1>1. UNCHANGED <<visiting, order, solutions, limit, candidate, other, stage, maximal>>
  BY DEF ReadInput, searchVars, budgetVars, compareVars
<1>2. CASE InputError # "none" /\ Fail(InputError)
  <2>1. InputError \in {"limit", "invalid", "contradictory"}
    BY <1>2 DEF InputError
  <2>2. phase' = "done" /\ result'.kind = InputError
    BY <1>2 DEF Fail, Failed
  <2>3. solutions' = <<>>
    BY <1>1 DEF InputStage
  <2> QED BY <2>1, <2>2, <2>3 DEF DoneStage
<1>3. CASE InputError = "none"
  <2>1. phase' = "relations" /\ UNCHANGED result
    BY <1>3 DEF ReadInput
  <2>2. Normalized' /\ marks' = [c \in Ids' |-> 0]
    BY <2>1, InputIsNormalized DEF InputStage
  <2>3. visiting' = <<>> /\ order' = <<>> /\ (solutions = <<>> /\ limit = FALSE /\ Untouched /\ result = Failed("none"))'
    BY <1>1, <2>1 DEF InputStage, Untouched
  <2>4. RelationsInv'
    <3>1. <<>> \in Seq(Ids') /\ IsInjective(<<>>) /\ DOMAIN <<>> = {} /\ Range(<<>>) = {}
      BY DEF IsInjective, Range
    <3>2. {c \in Ids' : marks'[c] = 2} = {} /\ marks' \in [Ids' -> {0, 1, 2}]
      BY <2>2
    <3> QED BY <2>3, <3>1, <3>2 DEF RelationsInv, TargetsFirst
  <2> QED BY <2>1, <2>2, <2>3, <2>4 DEF RelationsStage
<1> QED BY <1>2, <1>3 DEF ReadInput

LEMMA RelationsStageStep ==
    ASSUME families \in Inventories, RelationsStage, Relations \/ SearchBegins
    PROVE  RelationsStage' \/ SearchStage' \/ DoneStage'
<1>1. /\ UNCHANGED <<request, families, solutions, candidate, other, stage, maximal>>
      /\ limit' = limit
  BY DEF Relations, VisitRoot, VisitTarget, CycleFound, AppendToOrder, SearchBegins,
         inputVars, searchVars, budgetVars, compareVars
<1>2. (solutions = <<>> /\ limit = FALSE /\ Untouched)'
  BY <1>1 DEF RelationsStage, Untouched
<1>3. CASE Relations
  <2>1. Normalized' /\ RelationsInv'
    BY <1>1, <1>3, NormalizedKept, RelationsStep DEF RelationsStage
  <2>2. \/ UNCHANGED <<phase, result>>
        \/ phase' = "done" /\ result' = Failed("contradictory")
    BY <1>3 DEF Relations, VisitRoot, VisitTarget, CycleFound, AppendToOrder, Fail
  <2>3. CASE UNCHANGED <<phase, result>>
    BY <1>2, <2>1, <2>3 DEF RelationsStage
  <2>4. CASE phase' = "done" /\ result' = Failed("contradictory")
    BY <1>2, <2>4 DEF DoneStage, Failed
  <2> QED BY <2>2, <2>3, <2>4
<1>4. CASE SearchBegins
  <2>1. phase' = "search" /\ UNCHANGED result
    BY <1>4 DEF SearchBegins
  <2>2. (Searched /\ SearchInv)'
    BY <1>4, BeginStep DEF RelationsStage
  <2> QED BY <1>2, <2>1, <2>2 DEF SearchStage, Searched, RelationsStage
<1> QED BY <1>3, <1>4

LEMMA SearchStageStep ==
    ASSUME families \in Inventories, SearchStage, SearchGoesOn \/ SearchEnds
    PROVE  SearchStage' \/ CompareStage' \/ DoneStage'
<1>1. Searched /\ SearchInv
  BY DEF SearchStage, Searched
<1>2. CASE SearchGoesOn
  <2>1. SearchInv'
    BY <1>1, <1>2, AliasStep, InspectStep, TakeStep, DeclineStep, RetainStep, ReturnStep DEF SearchGoesOn
  <2>2. UNCHANGED <<inputVars, phase, request, relationVars, compareVars, result>>
    BY <1>2 DEF SearchGoesOn, TryAlias, InspectFamilies, TakeFamily, TryDecline, Retain, Return
  <2>3. UNCHANGED Fixed
    BY <2>2 DEF inputVars, relationVars, Fixed
  <2>4. Searched'
    BY <1>1, <2>3, FixedMeans
  <2> QED BY <2>1, <2>2, <2>4 DEF SearchStage, Searched, Untouched, compareVars
<1>3. CASE SearchEnds
  <2>1. /\ level = 1 /\ pending[1] = <<>> /\ UNCHANGED <<Fixed, solutions, candidate, other, stage, maximal>>
        /\ \/ phase' = "done" /\ result' = Failed("limit")
           \/ ~limit /\ solutions = <<>> /\ phase' = "done" /\ result' = Failed("insufficient")
           \/ ~limit /\ solutions # <<>> /\ phase' = "compare" /\ UNCHANGED result
    BY <1>3 DEF SearchEnds, Fail, inputVars, relationVars, searchVars, compareVars, Fixed
  <2>2. Searched' /\ UNCHANGED Compared
    BY <1>1, <2>1, FixedMeans DEF Compared
  <2>3. solutions' \in Seq(Complete')
    BY <1>1, <2>1, FixedMeans DEF SearchInv, RetainedInv
  <2>4. ~limit => Exhausted'
    BY <1>1, <2>1, <2>2, ExhaustedAtEnd, ComparedMeans DEF SearchInv, RetainedInv, Exhausted
  <2>5. CASE phase' = "done" /\ result' = Failed("limit")
    BY <2>2, <2>3, <2>5 DEF DoneStage, Failed, Searched
  <2>6. CASE ~limit /\ solutions = <<>> /\ phase' = "done" /\ result' = Failed("insufficient")
    BY <2>2, <2>3, <2>4, <2>6 DEF DoneStage, Failed, Searched
  <2>7. CASE ~limit /\ solutions # <<>> /\ phase' = "compare" /\ UNCHANGED result
    <3>1. CompareInv'
      <4>1. (candidate = 1 /\ other = 1 /\ stage = "dominance" /\ maximal = <<>>)'
        BY <2>1 DEF SearchStage, Untouched
      <4>2. <<>> \in Seq(Complete') /\ IsInjective(<<>>) /\ Range(<<>>) = {} /\ 1..1 - 1 = {}
        BY DEF IsInjective, Range
      <4>3. Len(solutions') \in Nat /\ 1 \in 1..Len(solutions') + 1
        BY <2>3
      <4> QED BY <4>1, <4>2, <4>3 DEF CompareInv, MaximalInv
    <3> QED BY <2>1, <2>2, <2>4, <2>7, <3>1 DEF CompareStage, Searched, SearchStage
  <2> QED BY <2>1, <2>5, <2>6, <2>7
<1> QED BY <1>2, <1>3

LEMMA PlanKept ==
    ASSUME UNCHANGED <<families, request>>, NEW s
    PROVE  Plan(s)' = Plan(s)
<1>1. Ids' = Ids /\ Families' = Families
  BY DEF Ids, Families
<1>2. \A f, r : Supports(f, r)' <=> Supports(f, r)
  BY <1>1 DEF Supports
<1>3. \A f, r : Suits(f, r)' <=> Suits(f, r)
  BY <1>2 DEF Suits
<1>4. \A r : SupportsAnywhere(r)' <=> SupportsAnywhere(r)
  BY <1>1, <1>2 DEF SupportsAnywhere
<1>5. \A c, x : AcceptedReason(c, x, s)' = AcceptedReason(c, x, s)
  BY DEF AcceptedReason, Target
<1>6. \A c : DeclinedReason(c, s)' = DeclinedReason(c, s)
  BY <1>3, <1>4 DEF DeclinedReason, Target
<1>7. \A h : Holders(s, h)' = Holders(s, h)
  BY <1>1 DEF Holders
<1>8. Allocations(s)' = Allocations(s)
  BY <1>1, <1>7 DEF Allocations
<1> QED BY <1>1, <1>5, <1>6, <1>8 DEF Plan

LEMMA CompareStageStep ==
    ASSUME families \in Inventories, CompareStage, Compare \/ Decide
    PROVE  CompareStage' \/ DoneStage'
<1>1. Searched /\ Exhausted /\ CompareInv /\ solutions # <<>> /\ phase = "compare"
  BY DEF CompareStage, Searched
<1>2. CASE Compare
  <2>1. /\ UNCHANGED Compared
        /\ \/ phase' = "compare" /\ CompareInv' /\ UNCHANGED result
           \/ phase' = "done" /\ result' = Failed("limit")
    BY <1>1, <1>2, CompareStep
  <2>2. Searched' /\ Exhausted' /\ solutions' # <<>>
    BY <1>1, <2>1, ComparedMeans
  <2> QED BY <2>1, <2>2 DEF CompareStage, DoneStage, Searched, Failed, Exhausted
<1>3. CASE Decide
  <2>1. /\ candidate > Len(solutions) /\ UNCHANGED Compared /\ phase' = "done"
        /\ \/ Len(maximal) # 1 /\ result' = Failed("ambiguous")
           \/ result' = Failed("insufficient")
           \/ Len(maximal) = 1 /\ result' = [kind |-> "resolved", plan |-> Plan(maximal[1])]
    BY <1>3 DEF Decide, Fail, inputVars, relationVars, searchVars, Compared, Fixed
  <2>2. Searched' /\ Exhausted'
    BY <1>1, <2>1, ComparedMeans
  <2>3. Range(maximal) = Unbeaten /\ IsInjective(maximal) /\ maximal \in Seq(Complete)
    BY <1>1, <2>1, KeptAreUnbeaten
  <2>4. Unbeaten' = Unbeaten
    BY <2>1, ComparedMeans DEF Unbeaten
  <2>5. CASE Len(maximal) # 1 /\ result' = Failed("ambiguous")
    <3>1. ASSUME NEW s, Unbeaten = {s} PROVE FALSE
      <4>1. Len(maximal) \in Nat /\ DOMAIN maximal = 1..Len(maximal)
        BY <2>3
      <4>2. \A k \in DOMAIN maximal : maximal[k] = s
        BY <2>3, <3>1 DEF Range
      <4>3. PICK k \in DOMAIN maximal : maximal[k] = s
        BY <2>3, <3>1 DEF Range
      <4>4. 1 \in DOMAIN maximal /\ Len(maximal) \in DOMAIN maximal
        BY <4>1, <4>3
      <4>5. 1 = Len(maximal)
        BY <2>3, <4>2, <4>4 DEF IsInjective
      <4> QED BY <2>5, <4>5
    <3>2. \A s : Unbeaten' # {s}
      BY <2>4, <3>1
    <3> QED BY <2>1, <2>2, <2>5, <3>2 DEF DoneStage, Failed, Searched, Exhausted
  <2>6. CASE result' = Failed("insufficient")
    BY <2>1, <2>2, <2>6 DEF DoneStage, Failed, Searched, Exhausted
  <2>7. CASE Len(maximal) = 1 /\ result' = [kind |-> "resolved", plan |-> Plan(maximal[1])]
    <3> DEFINE m == maximal[1]
    <3>1. m \in Complete /\ Range(maximal) = {m}
      <4>1. maximal \in [1..Len(maximal) -> Complete]
        BY <2>3
      <4>2. maximal \in [1..1 -> Complete]
        <5> HIDE DEF m
        <5> QED BY <4>1, <2>7
      <4>3. 1 \in DOMAIN maximal /\ m \in Complete /\ \A k \in DOMAIN maximal : k = 1
        BY <4>2
      <4> QED BY <4>3 DEF Range
    <3>2. UNCHANGED <<families, request>>
      BY <2>1 DEF Compared, Fixed
    <3>3. \A s : Plan(s)' = Plan(s)
      BY <3>2, PlanKept
    <3>4. m \in Complete' /\ Unbeaten' = {m}
      BY <2>1, <2>3, <2>4, <3>1, ComparedMeans
    <3>5. result'.kind = "resolved" /\ result'.plan = Plan(m)
      BY <2>7
    <3> HIDE DEF m
    <3>6. PICK s : s = m
      OBVIOUS
    <3>7. s \in Complete' /\ Unbeaten' = {s} /\ result'.plan = Plan(s)'
      BY <3>3, <3>4, <3>5, <3>6
    <3> QED BY <2>1, <2>2, <3>5, <3>7 DEF DoneStage, Searched, Exhausted
  <2> QED BY <2>1, <2>5, <2>6, <2>7
<1> QED BY <1>2, <1>3

LEMMA Stutters ==
    ASSUME Inv, UNCHANGED vars
    PROVE  Inv'
<1>1. /\ UNCHANGED <<inputVars, families, input, phase, request, marks, visiting, order, limit, level>>
      /\ UNCHANGED <<pending, choices, used, solutions, candidate, other, stage, maximal, result>>
      /\ UNCHANGED Fixed /\ UNCHANGED Compared
  BY DEF vars, inputVars, relationVars, searchVars, budgetVars, compareVars, Fixed, Compared
<1>2. /\ Ids' = Ids /\ Families' = Families /\ Options' = Options /\ Complete' = Complete
      /\ \A c : Target(c)' = Target(c)
      /\ Normalized => Normalized'
  BY <1>1, FixedMeans, NormalizedKept DEF Families, Target
<1>3. OrderInv => OrderInv'
  BY <1>1, <1>2 DEF OrderInv, TargetsFirst
<1>4. CASE InputStage
  BY <1>1, <1>4 DEF InputStage, Inv, Untouched
<1>5. CASE RelationsStage
  <2>1. RelationsInv'
    BY <1>1, <1>2, <1>5 DEF RelationsStage, RelationsInv, TargetsFirst
  <2> QED BY <1>1, <1>2, <1>5, <2>1 DEF RelationsStage, Inv, Untouched
<1>6. CASE SearchStage
  <2>1. SearchTypes'
    <3>1. \A f : Holding(choices, f)' = Holding(choices, f)
      BY <1>1, <1>2 DEF Holding
    <3> QED BY <1>1, <1>2, <1>6, <3>1 DEF SearchStage, SearchInv, SearchTypes
  <2>2. PathInv'
    BY <1>1, <1>6, FixedMeans DEF SearchStage, SearchInv, PathInv
  <2>3. TasksInv'
    BY <1>1, <1>6, FixedMeans DEF SearchStage, SearchInv, TasksInv
  <2>4. \A s : Waiting(s)' <=> Waiting(s)
    BY <1>1 DEF Waiting, Follows
  <2>5. RetainedInv'
    BY <1>1, <1>2, <1>6, <2>4 DEF SearchStage, SearchInv, RetainedInv
  <2> QED BY <1>1, <1>2, <1>3, <1>6, <2>1, <2>2, <2>3, <2>5 DEF SearchStage, SearchInv, Inv, Untouched
<1>7. CASE CompareStage
  <2>1. CompareInv'
    BY <1>1, <1>7, ComparedMeans DEF CompareStage, CompareInv, MaximalInv
  <2> QED BY <1>1, <1>2, <1>3, <1>7, <2>1, ComparedMeans DEF CompareStage, Inv
<1>8. CASE DoneStage
  <2>1. Unbeaten' = Unbeaten
    BY <1>1, ComparedMeans DEF Unbeaten
  <2>2. \A s : Plan(s)' = Plan(s)
    BY <1>1, PlanKept
  <2>3. Exhausted => Exhausted'
    BY <1>1, ComparedMeans
  <2>4. DoneStage'
    BY <1>1, <1>2, <1>3, <1>8, <2>1, <2>2, <2>3 DEF DoneStage
  <2> QED BY <1>1, <1>8, <2>4 DEF Inv
<1> QED BY <1>4, <1>5, <1>6, <1>7, <1>8 DEF Inv

LEMMA InvInitially == Init => Inv
BY DEF Init, Inv, InputStage, Untouched

LEMMA InvInductive == Inv /\ [Next]_vars => Inv'
<1> SUFFICES ASSUME Inv, [Next]_vars PROVE Inv'
  OBVIOUS
<1>1. CASE UNCHANGED vars
  BY <1>1, Stutters
<1>2. CASE Next
  <2>1. families' \in Inventories /\ input' \in Inputs /\ families \in Inventories /\ input \in Inputs
    <3>1. UNCHANGED inputVars
      BY <1>2 DEF Next, ReadInput, Relations, VisitRoot, VisitTarget, CycleFound, AppendToOrder,
                  Search, SearchBegins, TryAlias, InspectFamilies, TakeFamily, TryDecline, Retain,
                  Return, SearchEnds, Compare, SkipItself, CompareNext, Undominated,
                  CompareDuplicate, KeepMaximal, CompareUnchanged, Decide
    <3> QED BY <3>1 DEF inputVars, Inv
  <2>2. /\ InputStage <=> InputStage /\ phase = "input"
        /\ RelationsStage <=> RelationsStage /\ phase = "relations"
        /\ SearchStage <=> SearchStage /\ phase = "search"
        /\ CompareStage <=> CompareStage /\ phase = "compare"
        /\ DoneStage <=> DoneStage /\ phase = "done"
    BY DEF InputStage, RelationsStage, SearchStage, CompareStage, DoneStage
  <2>3. InputStage \/ RelationsStage \/ SearchStage \/ CompareStage \/ DoneStage
    BY DEF Inv
  <2>4. CASE phase = "input" /\ ReadInput
    BY <2>1, <2>2, <2>3, <2>4, InputStep DEF Inv
  <2>5. CASE phase = "relations" /\ (Relations \/ SearchBegins)
    BY <2>1, <2>2, <2>3, <2>5, RelationsStageStep DEF Inv
  <2>6. CASE phase = "search" /\ (SearchGoesOn \/ SearchEnds)
    BY <2>1, <2>2, <2>3, <2>6, SearchStageStep DEF Inv
  <2>7. CASE phase = "compare" /\ (Compare \/ Decide)
    BY <2>1, <2>2, <2>3, <2>7, CompareStageStep DEF Inv
  <2> QED BY <1>2, <2>4, <2>5, <2>6, <2>7, ActionsByPhase
<1> QED BY <1>1, <1>2

(* The search of resolve_queues never loses track of an allocation: by      *)
(* phase, what is retained and what is still to come.                       *)
THEOREM SearchKeepsTrack == Spec => []Inv
<1>1. Init => Inv
  BY InvInitially
<1>2. Inv /\ [Next]_vars => Inv'
  BY InvInductive
<1> QED BY <1>1, <1>2, PTL DEF Spec

-----------------------------------------------------------------------------
(* What the caller is told                                                 *)

(* Every retained allocation is native; an answer other than a refusal or a *)
(* limit rests on all complete allocations, each found once, for any        *)
(* families, requests and limits.                                           *)
THEOREM ExhaustiveAnswers == Spec => []AnswersAreExhaustive
<1>1. ASSUME Inv PROVE AnswersAreExhaustive
  <2>1. ASSUME NEW k \in DOMAIN solutions PROVE Native(solutions[k])
    <3>1. solutions # <<>> => Searched /\ solutions \in Seq(Complete)
      BY <1>1 DEF Inv, InputStage, RelationsStage, SearchStage, CompareStage, DoneStage, SearchInv,
                  RetainedInv, Exhausted, Searched
    <3>2. CASE solutions = <<>>
      BY <3>2
    <3>3. CASE solutions # <<>>
      <4>1. solutions[k] \in Complete
        BY <3>1, <3>3
      <4> QED BY <3>1, <3>3, <4>1, CompleteIsNative
    <3> QED BY <3>2, <3>3
  <2>2. result.kind \in {"resolved", "ambiguous", "insufficient"} => Exhausted
    BY <1>1 DEF Inv, InputStage, RelationsStage, SearchStage, CompareStage, DoneStage, Failed
  <2>3. result.kind \in {"resolved", "ambiguous"} => Range(solutions) = Complete /\ IsInjective(solutions)
    BY <2>2 DEF Exhausted
  <2>4. result.kind = "insufficient" =>
          \A s \in Complete : \A c \in Ids : ~s[c].accepted \/ solutions # <<>>
    BY <2>2 DEF Exhausted, Range
  <2> QED BY <2>1, <2>3, <2>4 DEF AnswersAreExhaustive
<1> QED BY <1>1, SearchKeepsTrack, PTL

\* What a published plan or an ambiguity rests on.
LEMMA AnswerRests ==
    ASSUME Inv, result.kind \in {"resolved", "ambiguous"}
    PROVE  /\ Searched /\ Exhausted /\ IsFiniteSet(Complete)
           /\ result.kind = "ambiguous" => \A s : Unbeaten # {s}
           /\ result.kind = "resolved" => Selected \in Complete /\ Unbeaten = {Selected}
                                          /\ result.plan = Plan(Selected)
<1>1. /\ Searched /\ Exhausted
      /\ result.kind = "ambiguous" => \A s : Unbeaten # {s}
      /\ result.kind = "resolved" => \E s \in Complete : Unbeaten = {s} /\ result.plan = Plan(s)
  <2>1. result # Failed("none")
    BY DEF Failed
  <2>2. DoneStage /\ families \in Inventories
    BY <2>1 DEF Inv, InputStage, RelationsStage, SearchStage, CompareStage
  <2>3. result.kind \in {"resolved", "ambiguous", "insufficient"}
    OBVIOUS
  <2> QED BY <2>2, <2>3 DEF DoneStage, Searched
<1>2. IsFiniteSet(Complete)
  <2>1. solutions \in Surjection(DOMAIN solutions, Complete)
    BY <1>1 DEF Exhausted, Surjection, Range
  <2>2. IsFiniteSet(DOMAIN solutions)
    <3>1. DOMAIN solutions = 1..Len(solutions) /\ Len(solutions) \in Nat
      BY <1>1 DEF Exhausted
    <3> QED BY <3>1, FS_Interval
  <2> QED BY <2>1, <2>2, FS_Surjection
<1>3. ASSUME NEW s \in Complete, result.plan = Plan(s) PROVE Selected = s
  <2>1. Selected = [c \in Ids |-> s[c]]
    BY <1>3 DEF Selected, Plan
  <2>2. s \in [Ids -> Options]
    BY <1>1, CompleteIs DEF Searched
  <2> QED BY <2>1, <2>2
<1> QED BY <1>1, <1>2, <1>3

(* A resolved plan serves every request at least as well as any complete    *)
(* allocation, and no other does: trade-offs and ties are ambiguous.        *)
THEOREM PreferredPlans == Spec => []ResolvedByPreference
<1>1. ASSUME Inv PROVE ResolvedByPreference
  <2> SUFFICES ASSUME result.kind = "resolved", NEW s \in Complete \ {Selected}
               PROVE  /\ \A c \in Ids : AsGood(c, Selected[c], s[c])
                      /\ \E c \in Ids : ~AsGood(c, s[c], Selected[c])
    BY DEF ResolvedByPreference
  <2>1. Searched /\ IsFiniteSet(Complete) /\ Unbeaten = {Selected}
    BY <1>1, AnswerRests
  <2>2. StrictlyAbove(Selected, s)
    BY <2>1, UnbeatenAbove
  <2> QED BY <2>2 DEF StrictlyAbove, Above
<1> QED BY <1>1, SearchKeepsTrack, PTL

(* An ambiguous outcome has a reason the caller can name.                   *)
THEOREM GenuineAmbiguity == Spec => []AmbiguityIsGenuine
<1>1. ASSUME Inv PROVE AmbiguityIsGenuine
  <2> SUFFICES ASSUME result.kind = "ambiguous", NEW s \in Complete
               PROVE  \E t \in Complete \ {s} :
                        \/ \E c \in Ids : ~AsGood(c, s[c], t[c]) \/ Displaces(c, s, t)
                        \/ \A c \in Ids : AsGood(c, t[c], s[c])
    BY DEF AmbiguityIsGenuine
  <2>1. Searched /\ IsFiniteSet(Complete) /\ Unbeaten # {s}
    BY <1>1, AnswerRests
  <2>2. CASE s \notin Unbeaten
    <3>1. PICK t \in Complete \ {s} : Dominates(t, s)
      BY <2>2 DEF Unbeaten
    <3>2. Above(t, s)
      BY <2>1, <3>1, DominatesMeans DEF StrictlyAbove
    <3> QED BY <3>2 DEF Above
  <2>3. CASE s \in Unbeaten
    <3>1. PICK t \in Unbeaten : t # s
      BY <2>1, <2>3
    <3>2. t \in Complete \ {s} /\ ~Dominates(s, t)
      BY <2>3, <3>1 DEF Unbeaten
    <3>3. (\E c \in Ids : ~AsGood(c, s[c], t[c]) \/ Displaces(c, s, t)) \/ Above(t, s)
      BY <2>1, <3>2, DominatesMeans
    <3> QED BY <3>2, <3>3 DEF Above
  <2> QED BY <2>2, <2>3
<1> QED BY <1>1, SearchKeepsTrack, PTL

(* The published plan creates every queue it assigns, once, at the priority *)
(* all its callers asked for, and declines no required request.             *)
THEOREM NativePlans == Spec => []PlanIsNative
<1>1. ASSUME Inv PROVE PlanIsNative
  <2> SUFFICES ASSUME result.kind = "resolved"
               PROVE  /\ Native(Selected)
                      /\ \A c \in Ids : request[c].strength = "required" => Selected[c].accepted
                      /\ \A c \in Ids : Selected[c].accepted =>
                           \E a \in result.plan.allocations :
                               /\ a.family = Selected[c].family /\ a.queue = Selected[c].queue
                               /\ c \in a.callers /\ a.priority = request[c].priority
                      /\ \A a, b \in result.plan.allocations :
                           a.family = b.family /\ a.queue = b.queue => a = b
    BY DEF PlanIsNative
  <2> DEFINE m == Selected
             First(h) == CHOOSE c \in Holders(m, h) : \A d \in Holders(m, h) : c <= d
             Allocation(h) == [family |-> m[h].family, queue |-> m[h].queue,
                               priority |-> request[First(h)].priority, callers |-> Holders(m, h)]
             holders == {c \in Ids : m[c].accepted}
  <2>1. Searched /\ m \in Complete /\ result.plan = Plan(m)
    BY <1>1, AnswerRests
  <2>2. result.plan.allocations = {Allocation(h) : h \in holders}
    BY <2>1 DEF Plan, Allocations
  <2> HIDE DEF m
  <2>3. Native(m)
    BY <2>1, CompleteIsNative
  <2>4. ASSUME NEW c \in Ids, request[c].strength = "required" PROVE m[c].accepted
    <3>1. PICK j \in 1..Len(order) : c = order[j]
      BY <2>1, OrderIs DEF Searched
    <3>2. Legal(m, c)
      BY <2>1, ChoicesAre
    <3> QED BY <2>1, <2>4, <3>1, <3>2, LegalIs DEF Searched
  <2>5. ASSUME NEW c \in holders
        PROVE  c \in Holders(m, c) /\ request[First(c)].priority = request[c].priority
    <3>1. c \in Holders(m, c) /\ Holders(m, c) \subseteq Ids
      BY DEF Holders, SameCoordinate
    <3>2. Ids \subseteq Nat
      BY <2>1 DEF Searched, Normalized
    <3>3. Holders(m, c) \in SUBSET Nat /\ Holders(m, c) # {}
      BY <3>1, <3>2
    <3>4. \E d \in Holders(m, c) : \A e \in Holders(m, c) : d <= e
      BY <3>3, LeastNatural
    <3>5. First(c) \in Holders(m, c)
      BY <3>4
    <3>6. SameCoordinate(m[First(c)], m[c]) /\ First(c) \in Ids
      <4> HIDE DEF First
      <4> QED BY <3>5 DEF Holders
    <3> HIDE DEF First
    <3>7. request[First(c)].priority = request[c].priority
      BY <2>3, <3>6 DEF Native
    <3> QED BY <3>1, <3>7
  <2>6. ASSUME NEW c \in Ids, m[c].accepted
        PROVE  \E a \in result.plan.allocations :
                   /\ a.family = m[c].family /\ a.queue = m[c].queue
                   /\ c \in a.callers /\ a.priority = request[c].priority
    <3>1. c \in holders /\ Allocation(c) \in result.plan.allocations
      BY <2>2, <2>6
    <3>2. /\ Allocation(c).family = m[c].family /\ Allocation(c).queue = m[c].queue
          /\ Allocation(c).callers = Holders(m, c)
          /\ Allocation(c).priority = request[First(c)].priority
      OBVIOUS
    <3> HIDE DEF Allocation, First, holders
    <3> QED BY <2>5, <3>1, <3>2
  <2>7. ASSUME NEW g \in holders, NEW h \in holders, m[g].family = m[h].family, m[g].queue = m[h].queue
        PROVE  Allocation(g) = Allocation(h)
    <3>1. Holders(m, g) = Holders(m, h)
      BY <2>7 DEF Holders, SameCoordinate
    <3>2. First(g) = First(h)
      BY <3>1
    <3> HIDE DEF First
    <3> QED BY <2>7, <3>1, <3>2
  <2>8. ASSUME NEW a \in result.plan.allocations, NEW b \in result.plan.allocations,
               a.family = b.family, a.queue = b.queue
        PROVE  a = b
    <3>1. PICK g \in holders : a = Allocation(g)
      BY <2>2
    <3>2. PICK h \in holders : b = Allocation(h)
      BY <2>2
    <3>3. m[g].family = m[h].family /\ m[g].queue = m[h].queue
      BY <2>8, <3>1, <3>2
    <3> HIDE DEF Allocation, holders
    <3> QED BY <2>7, <3>1, <3>2, <3>3
  <2> QED BY <2>3, <2>4, <2>6, <2>8 DEF m
<1> QED BY <1>1, SearchKeepsTrack, PTL
=============================================================================

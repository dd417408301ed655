--------------------------- MODULE SubmissionProofs ---------------------------
(***************************************************************************)
(* Proofs about CommandLifecycle for any number of pools, allocations,     *)
(* views, descriptions and failures; and on top of them about Submission,  *)
(* for any number of queues, fences, semaphores and batches as well.       *)
(***************************************************************************)
EXTENDS Submission, WellFoundedInduction, TLAPS

(***************************************************************************)
(* The inductive invariant: the safety properties, and what their proofs   *)
(* need beside them.  A record that tracks a state has an allocation; an   *)
(* Impl with records is some pool's; an Impl that a pool has was created   *)
(* with a description, so that the one CreatePool takes has never been in  *)
(* use and owns nothing.                                                   *)
(***************************************************************************)
Tracked ==
    \A r \in Records : state[r] \in CommandBufferState => native[r] \notin {"none", "gone"}

Pooled == \A i \in Impls : records[i] # {} => \E p \in Pools : implementation[p] = i

Described ==
    \A p \in Pools : implementation[p] # NoImpl => description[implementation[p]] # NoImpl

Inductive ==
    /\ StateTypeOK
    /\ TrackingAgrees
    /\ EveryAllocationOwned
    /\ ViewsAreExclusive
    /\ Tracked
    /\ Pooled
    /\ Described

-----------------------------------------------------------------------------
(* Facts about the invariant                                               *)

(* A record is in at most one pool, and has an allocation and a tracked     *)
(* state as long as it is in one.                                           *)
LEMMA Membership ==
    ASSUME Inductive, NEW i \in Impls, NEW r \in records[i]
    PROVE  /\ r \in Records
           /\ native[r] \notin {"none", "gone"}
           /\ state[r] \in CommandBufferState
           /\ \A k \in Impls : r \in records[k] => k = i
<1>1. r \in Records
  BY DEF Inductive, StateTypeOK
<1>2. PICK p \in Pools : implementation[p] = i
  BY DEF Inductive, Pooled
<1>3. implementation[p] # NoImpl
  BY <1>2, LifecycleAssumption
<1>4. native[r] \notin {"none", "gone"}
  BY <1>1, <1>2, <1>3 DEF Inductive, EveryAllocationOwned
<1>5. state[r] \in CommandBufferState
  BY <1>1, <1>4 DEF Inductive, StateTypeOK, TrackingAgrees
<1>6. \A k \in Impls : r \in records[k] => k = i
  BY DEF Inductive, EveryAllocationOwned
<1> QED BY <1>1, <1>4, <1>5, <1>6

(* What a record without an allocation is not: in a pool, or in a view.     *)
LEMMA Unallocated ==
    ASSUME Inductive, NEW r \in Records, native[r] = "none"
    PROVE  /\ \A i \in Impls : r \notin records[i]
           /\ \A v \in Views : record[v] # r
<1>1. \A i \in Impls : r \notin records[i]
  BY Membership
<1>2. ASSUME NEW v \in Views, record[v] = r PROVE FALSE
  <2>1. r # NoRecord
    BY LifecycleAssumption
  <2>2. state[r] \in CommandBufferState
    BY <1>2, <2>1 DEF Inductive, ViewsAreExclusive
  <2> QED BY <2>2 DEF Inductive, Tracked
<1> QED BY <1>1, <1>2

(* A view that is not empty stands on a record in a pool.                   *)
LEMMA ViewStands ==
    ASSUME Inductive, NEW v \in Views, record[v] # NoRecord
    PROVE  /\ record[v] \in Records
           /\ state[record[v]] \in CommandBufferState
           /\ \E i \in Impls : record[v] \in records[i]
<1>1. record[v] \in Records
  BY DEF Inductive, StateTypeOK
<1>2. state[record[v]] \in CommandBufferState
  BY DEF Inductive, ViewsAreExclusive
<1>3. native[record[v]] \notin {"none", "gone"}
  BY <1>1, <1>2 DEF Inductive, Tracked
<1>4. \E p \in Pools : implementation[p] # NoImpl /\ record[v] \in records[implementation[p]]
  BY <1>1, <1>3 DEF Inductive, EveryAllocationOwned
<1>5. \E i \in Impls : record[v] \in records[i]
  BY <1>4 DEF Inductive, StateTypeOK
<1> QED BY <1>1, <1>2, <1>5

(* A call that changes nothing but what it returns and the failure count.   *)
LEMMA Refused ==
    ASSUME Inductive, UNCHANGED <<poolVars, record, bufferVars>>,
           faults' \in 0..MaxFaults
    PROVE  Inductive'
BY DEF Inductive, StateTypeOK, TrackingAgrees, EveryAllocationOwned, ViewsAreExclusive, Tracked,
       Pooled, Described, poolVars, bufferVars

-----------------------------------------------------------------------------
(* The steps                                                               *)

\* Record r is tracked anew, and what is tracked agrees with Vulkan.
Retracked(r) ==
    /\ state[r] \in CommandBufferState
    /\ state'[r] \in CommandBufferState
    /\ native'[r] \notin {"none", "gone"}
    /\ state'[r] \in {"initial", "recording"} => native'[r] = state'[r]
    /\ state'[r] = "executable" => native'[r] \in {"executable", "pending"}

(* Calls that move buffers from state to state preserve the invariant if    *)
(* each record they touch had an allocation and agrees with it afterwards.  *)
LEMMA Retracking ==
    ASSUME Inductive, UNCHANGED <<poolVars, record>>,
           faults' \in 0..MaxFaults,
           usage' \in [Records -> SUBSET BeginFlags],
           state' \in [Records -> CommandBufferState \cup {"none", "gone"}],
           native' \in [Records -> NativeState \cup {"none", "gone"}],
           \A r \in Records : \/ Retracked(r)
                              \/ UNCHANGED <<state[r], native[r], usage[r]>>
    PROVE  Inductive'
<1>1. \A r \in Records : native'[r] \notin {"none", "gone"} <=> native[r] \notin {"none", "gone"}
  BY DEF Inductive, Tracked, Retracked
<1>2. \A r \in Records : state[r] \in CommandBufferState => state'[r] \in CommandBufferState
  BY DEF Retracked
<1>3. StateTypeOK'
  BY DEF Inductive, StateTypeOK, poolVars
<1>4. TrackingAgrees'
  BY DEF Inductive, TrackingAgrees, Retracked, CommandBufferState
<1>5. EveryAllocationOwned'
  BY <1>1 DEF Inductive, EveryAllocationOwned, poolVars
<1>6. ViewsAreExclusive'
  BY <1>2, ViewStands DEF Inductive, ViewsAreExclusive
<1>7. Tracked'
  BY DEF Inductive, Tracked, Retracked
<1>8. Pooled' /\ Described'
  BY DEF Inductive, Pooled, Described, poolVars
<1> QED BY <1>3, <1>4, <1>5, <1>6, <1>7, <1>8 DEF Inductive

(* A successful native call on a view's buffer, and a failed one.           *)
LEMMA NativeCall ==
    ASSUME Inductive, NEW v \in Views, record[v] # NoRecord,
           NEW s \in {"initial", "recording", "executable"},
           NEW outcomes \in SUBSET (NativeState),
           \/ Moves(v, s) /\ usage' \in [Records -> SUBSET BeginFlags]
                /\ \A r \in Records : r # record[v] => usage'[r] = usage[r]
           \/ Fails(v, outcomes)
    PROVE  Inductive'
<1> DEFINE r == record[v]
<1>1. r \in Records /\ state[r] \in CommandBufferState
  BY ViewStands
<1>2. StateTypeOK
  BY DEF Inductive
<1>3. CASE /\ Moves(v, s) /\ usage' \in [Records -> SUBSET BeginFlags]
           /\ \A x \in Records : x # r => usage'[x] = usage[x]
  <2>1. state' = [state EXCEPT ![r] = s] /\ native' = [native EXCEPT ![r] = s]
    BY <1>3 DEF Moves
  <2>2. Retracked(r)
    BY <1>1, <1>2, <2>1 DEF Retracked, StateTypeOK, CommandBufferState
  <2>3. \A x \in Records : x # r => UNCHANGED <<state[x], native[x], usage[x]>>
    BY <1>2, <1>3, <2>1 DEF StateTypeOK
  <2>4. /\ state' \in [Records -> CommandBufferState \cup {"none", "gone"}]
        /\ native' \in [Records -> NativeState \cup {"none", "gone"}]
    BY <1>2, <2>1 DEF StateTypeOK, CommandBufferState, NativeState
  <2>5. UNCHANGED <<poolVars, record>> /\ faults' \in 0..MaxFaults
    BY <1>2, <1>3 DEF Moves, StateTypeOK
  <2> QED BY <1>3, <2>2, <2>3, <2>4, <2>5, Retracking
<1>4. CASE Fails(v, outcomes)
  <2>1. PICK n \in outcomes : native' = [native EXCEPT ![r] = n]
    BY <1>4 DEF Fails
  <2>2. state' = [state EXCEPT ![r] = "invalid"]
    BY <1>4 DEF Fails, StateAfterFailure
  <2>3. n \notin {"none", "gone"}
    BY <2>1 DEF NativeState, CommandBufferState
  <2>4. Retracked(r)
    BY <1>1, <1>2, <2>1, <2>2, <2>3 DEF Retracked, StateTypeOK, CommandBufferState
  <2>5. \A x \in Records : x # r => UNCHANGED <<state[x], native[x], usage[x]>>
    BY <1>2, <1>4, <2>1, <2>2 DEF StateTypeOK, Fails
  <2>6. /\ state' \in [Records -> CommandBufferState \cup {"none", "gone"}]
        /\ native' \in [Records -> NativeState \cup {"none", "gone"}]
        /\ usage' \in [Records -> SUBSET BeginFlags]
    BY <1>2, <1>4, <2>1, <2>2 DEF StateTypeOK, Fails, CommandBufferState
  <2>7. UNCHANGED <<poolVars, record>> /\ faults' \in 0..MaxFaults
    BY <1>2, <1>4, LifecycleAssumption DEF Fails, Fault, StateTypeOK
  <2> QED BY <2>4, <2>5, <2>6, <2>7, Retracking
<1> QED BY <1>3, <1>4

(* vkResetCommandPool on every record of a pool, recording and abandoned    *)
(* ones included, whether it succeeds or fails half way.                    *)
LEMMA PoolReset ==
    ASSUME Inductive, NEW p \in Pools, NEW flags \in SUBSET ResetFlags,
           ResetPool(p, flags) \/ ResetPoolFails(p, flags)
    PROVE  Inductive'
<1> DEFINE i == implementation[p]
<1>1. StateTypeOK
  BY DEF Inductive
<1>2. i \in Impls
  BY <1>1 DEF ResetPool, ResetPoolFails, PoolResetError, StateTypeOK
<1>3. \A r \in records[i] : /\ r \in Records
                            /\ native[r] \notin {"none", "gone"}
                            /\ state[r] \in CommandBufferState
  BY <1>2, Membership
<1>4. CASE ResetPool(p, flags)
  <2>1. state' = [r \in Records |-> IF r \in records[i] THEN "initial" ELSE state[r]]
    BY <1>4 DEF ResetPool, StateAfterPoolReset
  <2>2. native' = [r \in Records |-> IF r \in records[i] THEN "initial" ELSE native[r]]
    BY <1>4 DEF ResetPool
  <2>3. /\ state' \in [Records -> CommandBufferState \cup {"none", "gone"}]
        /\ native' \in [Records -> NativeState \cup {"none", "gone"}]
    BY <1>1, <2>1, <2>2 DEF StateTypeOK, CommandBufferState, NativeState
  <2>4. /\ UNCHANGED <<poolVars, record>> 
        /\ faults' \in 0..MaxFaults /\ usage' = usage
    BY <1>1, <1>4 DEF ResetPool, StateTypeOK
  <2>5. \A r \in Records : r \in records[i] => Retracked(r)
    BY <1>3, <2>1, <2>2 DEF Retracked, CommandBufferState
  <2>6. \A r \in Records : r \notin records[i] => UNCHANGED <<state[r], native[r], usage[r]>>
    BY <2>1, <2>2, <2>4
  <2>7. usage' \in [Records -> SUBSET BeginFlags]
    BY <1>1, <2>4 DEF StateTypeOK
  <2> QED BY <2>3, <2>4, <2>5, <2>6, <2>7, Retracking
<1>5. CASE ResetPoolFails(p, flags)
  <2>1. state' = [r \in Records |-> IF r \in records[i] THEN "invalid" ELSE state[r]]
    BY <1>5 DEF ResetPoolFails, StateAfterPoolReset
  <2>2. PICK done \in SUBSET records[i] :
          native' = [r \in Records |-> IF r \in done THEN "initial" ELSE native[r]]
    BY <1>5 DEF ResetPoolFails
  <2>3. /\ state' \in [Records -> CommandBufferState \cup {"none", "gone"}]
        /\ native' \in [Records -> NativeState \cup {"none", "gone"}]
    BY <1>1, <2>1, <2>2 DEF StateTypeOK, CommandBufferState, NativeState
  <2>4. /\ UNCHANGED <<poolVars, record>> 
        /\ faults' \in 0..MaxFaults /\ usage' = usage
    BY <1>1, <1>5, LifecycleAssumption DEF ResetPoolFails, Fault, StateTypeOK
  <2>5. \A r \in Records : r \in records[i] => Retracked(r)
    BY <1>3, <2>1, <2>2 DEF Retracked, CommandBufferState
  <2>6. \A r \in Records : r \notin records[i] => UNCHANGED <<state[r], native[r], usage[r]>>
    BY <2>1, <2>2, <2>4
  <2>7. usage' \in [Records -> SUBSET BeginFlags]
    BY <1>1, <2>4 DEF StateTypeOK
  <2> QED BY <2>3, <2>4, <2>5, <2>6, <2>7, Retracking
<1> QED BY <1>4, <1>5

(* createCommandPool: the Impl it takes has never had a description, so no  *)
(* pool has it and it owns nothing.                                         *)
LEMMA PoolCreated ==
    ASSUME Inductive, NEW p \in Pools, NEW d \in Descriptions, CreatePool(p, d)
    PROVE  Inductive'
<1>1. StateTypeOK /\ NoImpl \notin Impls \cup Descriptions
  BY LifecycleAssumption DEF Inductive
<1>2. PICK i \in Impls : /\ description[i] = NoImpl
                         /\ implementation' = [implementation EXCEPT ![p] = i]
                         /\ description' = [description EXCEPT ![i] = d]
  BY DEF CreatePool
<1>3. \A q \in Pools : implementation[q] # i
  BY <1>1, <1>2 DEF Inductive, Described
<1>4. implementation[p] = NoImpl /\ UNCHANGED <<records, record, bufferVars, faults>>
  BY DEF CreatePool
<1>5. records[i] = {}
  BY <1>1, <1>3 DEF Inductive, Pooled
<1>6. /\ implementation'[p] = i
      /\ \A q \in Pools : q # p => implementation'[q] = implementation[q]
  BY <1>1, <1>2 DEF StateTypeOK
<1>7. StateTypeOK'
  <2>1. \A k \in Impls : description'[k] \in Descriptions \cup {NoImpl}
    BY <1>1, <1>2 DEF StateTypeOK
  <2> QED BY <1>1, <1>2, <1>4, <2>1 DEF StateTypeOK, bufferVars
<1>8. TrackingAgrees' /\ ViewsAreExclusive' /\ Tracked'
  BY <1>4 DEF Inductive, TrackingAgrees, ViewsAreExclusive, Tracked, bufferVars
<1>9. EveryAllocationOwned'
  <2>1. \A r \in Records :
          (\E q \in Pools : implementation[q] # NoImpl /\ r \in records[implementation[q]]) <=>
          (\E q \in Pools : implementation'[q] # NoImpl /\ r \in records'[implementation'[q]])
    BY <1>4, <1>5, <1>6
  <2>2. \A q, s \in Pools : q # s /\ implementation'[q] = implementation'[s]
                              => implementation'[q] = NoImpl
    BY <1>3, <1>6 DEF Inductive, EveryAllocationOwned
  <2> QED BY <1>4, <2>1, <2>2 DEF Inductive, EveryAllocationOwned, bufferVars
<1>10. Pooled'
  BY <1>1, <1>4, <1>5, <1>6 DEF Inductive, Pooled
<1>11. Described'
  <2>1. description'[i] # NoImpl
    BY <1>1, <1>2 DEF StateTypeOK
  <2>2. \A q \in Pools : q # p => description'[implementation[q]] = description[implementation[q]]
                                   \/ implementation[q] = NoImpl
    BY <1>1, <1>2, <1>3 DEF StateTypeOK
  <2> QED BY <1>6, <2>1, <2>2 DEF Inductive, Described
<1> QED BY <1>7, <1>8, <1>9, <1>10, <1>11 DEF Inductive

(* ~Impl takes the records with the allocations, by destruction and when a  *)
(* move displaces the pool; what is moved over stays owned, by one pool.    *)
LEMMA PoolDestroyed ==
    ASSUME Inductive, NEW p \in Pools,
           \/ DestroyPool(p)
           \/ \E q \in Pools : MoveAssignPool(p, q)
    PROVE  Inductive'
<1> DEFINE i == implementation[p]
           Live(r) == i = NoImpl \/ r \notin records[i]
<1>1. StateTypeOK /\ NoImpl \notin Impls
  BY LifecycleAssumption DEF Inductive
<1>2. /\ MayDestroy(i)
      /\ state' = Destroyed(i, state) /\ native' = Destroyed(i, native)
      /\ records' = Unowned(i)
      /\ UNCHANGED <<description, record, usage, faults>>
  BY DEF DestroyPool, MoveAssignPool
<1>3. \A r \in Records :
        /\ Live(r) => state'[r] = state[r] /\ native'[r] = native[r]
        /\ ~Live(r) => state'[r] = "gone" /\ native'[r] = "gone"
  BY <1>2 DEF Destroyed
<1>4. \A k \in Impls : records'[k] = IF k = i THEN {} ELSE records[k]
  BY <1>2 DEF Unowned
<1>5. /\ implementation' \in [Pools -> Impls \cup {NoImpl}]
      /\ \A q \in Pools : implementation'[q] # NoImpl =>
           \E s \in Pools : s # p /\ implementation[s] = implementation'[q]
      /\ \A s \in Pools : s # p /\ implementation[s] # NoImpl =>
           \E q \in Pools : implementation'[q] = implementation[s]
      /\ \A q, s \in Pools : q # s /\ implementation'[q] = implementation'[s]
                               => implementation'[q] = NoImpl
  <2>1. CASE DestroyPool(p)
    BY <1>1, <2>1 DEF DestroyPool, StateTypeOK, Inductive, EveryAllocationOwned
  <2>2. ASSUME NEW q \in Pools, MoveAssignPool(p, q) PROVE <1>5
    <3>1. /\ implementation' = [implementation EXCEPT ![p] = implementation[q], ![q] = NoImpl]
          /\ p # q
      BY <2>2 DEF MoveAssignPool
    <3>2. /\ implementation'[p] = implementation[q] /\ implementation'[q] = NoImpl
          /\ \A s \in Pools \ {p, q} : implementation'[s] = implementation[s]
      BY <1>1, <3>1 DEF StateTypeOK
    <3>3. implementation' \in [Pools -> Impls \cup {NoImpl}]
      BY <1>1, <3>1 DEF StateTypeOK
    <3> QED BY <3>1, <3>2, <3>3 DEF Inductive, EveryAllocationOwned
  <2> QED BY <2>1, <2>2
<1>6. \A q \in Pools : implementation'[q] # NoImpl => implementation'[q] \in Impls \ {i}
  BY <1>1, <1>5 DEF Inductive, EveryAllocationOwned, StateTypeOK
<1>7. StateTypeOK'
  <2>1. state' \in [Records -> CommandBufferState \cup {"none", "gone"}]
    BY <1>1, <1>2 DEF Destroyed, StateTypeOK
  <2>2. native' \in [Records -> NativeState \cup {"none", "gone"}]
    BY <1>1, <1>2 DEF Destroyed, StateTypeOK
  <2>3. records' \in [Impls -> SUBSET Records]
    BY <1>1, <1>2 DEF Unowned, StateTypeOK
  <2> QED BY <1>1, <1>2, <1>5, <2>1, <2>2, <2>3 DEF StateTypeOK
<1>8. TrackingAgrees'
  BY <1>2, <1>3 DEF Inductive, TrackingAgrees, CommandBufferState
<1>9. Tracked'
  BY <1>3 DEF Inductive, Tracked, CommandBufferState
<1>10. EveryAllocationOwned'
  <2>1. ASSUME NEW r \in Records
        PROVE  native'[r] \notin {"none", "gone"} <=>
                 \E q \in Pools : implementation'[q] # NoImpl /\ r \in records'[implementation'[q]]
    <3>1. ASSUME NEW q \in Pools, implementation'[q] # NoImpl, r \in records'[implementation'[q]]
          PROVE  native'[r] \notin {"none", "gone"}
      <4>1. implementation'[q] \in Impls \ {i} /\ r \in records[implementation'[q]]
        BY <1>4, <1>6, <3>1
      <4>2. Live(r)
        BY <1>1, <4>1, Membership DEF StateTypeOK
      <4> QED BY <1>3, <4>1, <4>2, Membership
    <3>2. ASSUME native'[r] \notin {"none", "gone"}
          PROVE  \E q \in Pools : implementation'[q] # NoImpl /\ r \in records'[implementation'[q]]
      <4>1. Live(r) /\ native[r] \notin {"none", "gone"}
        BY <1>3, <3>2
      <4>2. PICK s \in Pools : implementation[s] # NoImpl /\ r \in records[implementation[s]]
        BY <4>1 DEF Inductive, EveryAllocationOwned
      <4>3. s # p /\ implementation[s] # i /\ implementation[s] \in Impls
        BY <1>1, <4>1, <4>2 DEF StateTypeOK
      <4> QED BY <1>4, <1>5, <4>2, <4>3
    <3> QED BY <3>1, <3>2
  <2>2. \A j, k \in Impls : j # k => records'[j] \cap records'[k] = {}
    BY <1>4 DEF Inductive, EveryAllocationOwned
  <2> QED BY <1>5, <2>1, <2>2 DEF EveryAllocationOwned
<1>11. ViewsAreExclusive'
  <2>1. ASSUME NEW v \in Views, record[v] # NoRecord PROVE state'[record[v]] \in CommandBufferState
    <3>1. Live(record[v])
      BY <1>2, <2>1 DEF MayDestroy, ViewsOf
    <3> QED BY <1>3, <2>1, <3>1, ViewStands
  <2> QED BY <1>2, <2>1 DEF Inductive, ViewsAreExclusive
<1>12. Pooled'
  <2>1. ASSUME NEW k \in Impls, records'[k] # {} PROVE \E q \in Pools : implementation'[q] = k
    <3>1. k # i /\ records[k] # {}
      BY <1>4, <2>1
    <3>2. PICK s \in Pools : implementation[s] = k
      BY <3>1 DEF Inductive, Pooled
    <3> QED BY <1>1, <1>5, <3>1, <3>2
  <2> QED BY <2>1 DEF Pooled
<1>13. Described'
  BY <1>2, <1>5 DEF Inductive, Described
<1> QED BY <1>7, <1>8, <1>9, <1>10, <1>11, <1>12, <1>13 DEF Inductive

(* allocatePrimary: the new record was in no pool and in no view.           *)
LEMMA Allocated ==
    ASSUME Inductive, NEW p \in Pools, NEW v \in Views, Allocate(p, v)
    PROVE  Inductive'
<1> DEFINE i == implementation[p]
<1>1. StateTypeOK
  BY DEF Inductive
<1>2. i \in Impls /\ i # NoImpl
  BY <1>1 DEF Allocate, StateTypeOK
<1>3. PICK r \in Records : /\ native[r] = "none"
                           /\ native' = [native EXCEPT ![r] = "initial"]
                           /\ state' = [state EXCEPT ![r] = "initial"]
                           /\ records' = [records EXCEPT ![i] = @ \cup {r}]
                           /\ record' = [record EXCEPT ![v] = r]
  BY DEF Allocate
<1>4. UNCHANGED <<implementation, description, usage, faults>>
  BY DEF Allocate
<1>5. (\A k \in Impls : r \notin records[k]) /\ \A w \in Views : record[w] # r
  BY <1>3, Unallocated
<1>6. /\ native'[r] = "initial" /\ state'[r] = "initial"
      /\ \A x \in Records : x # r => native'[x] = native[x] /\ state'[x] = state[x]
      /\ records'[i] = records[i] \cup {r}
      /\ \A k \in Impls : k # i => records'[k] = records[k]
      /\ record'[v] = r /\ \A w \in Views : w # v => record'[w] = record[w]
  BY <1>1, <1>2, <1>3 DEF StateTypeOK
<1>7. StateTypeOK'
  BY <1>1, <1>2, <1>3, <1>4
     DEF StateTypeOK, NativeState, CommandBufferState
<1>8. TrackingAgrees' /\ Tracked'
  BY <1>4, <1>6 DEF Inductive, TrackingAgrees, Tracked
<1>9. EveryAllocationOwned'
  <2>1. \A x \in Records :
          native'[x] \notin {"none", "gone"} <=>
            \E q \in Pools : implementation'[q] # NoImpl /\ x \in records'[implementation'[q]]
    <3>1. \E q \in Pools : implementation'[q] # NoImpl /\ r \in records'[implementation'[q]]
      BY <1>2, <1>4, <1>6
    <3>2. \A x \in Records : \A k \in Impls : x # r => (x \in records'[k] <=> x \in records[k])
      BY <1>6
    <3>3. \A q \in Pools : implementation[q] # NoImpl => implementation[q] \in Impls
      BY <1>1 DEF StateTypeOK
    <3> QED BY <1>4, <1>6, <3>1, <3>2, <3>3 DEF Inductive, EveryAllocationOwned
  <2>2. \A j, k \in Impls : j # k => records'[j] \cap records'[k] = {}
    BY <1>5, <1>6 DEF Inductive, EveryAllocationOwned
  <2> QED BY <1>4, <2>1, <2>2 DEF Inductive, EveryAllocationOwned
<1>10. ViewsAreExclusive'
  <2>1. \A w \in Views : record'[w] # NoRecord => state'[record'[w]] \in CommandBufferState
    BY <1>6, ViewStands DEF CommandBufferState
  <2>2. \A w, x \in Views : w # x /\ record'[w] = record'[x] => record'[w] = NoRecord
    BY <1>5, <1>6 DEF Inductive, ViewsAreExclusive
  <2> QED BY <2>1, <2>2 DEF ViewsAreExclusive
<1>11. Pooled'
  BY <1>2, <1>4, <1>6 DEF Inductive, Pooled
<1>12. Described'
  BY <1>4 DEF Inductive, Described
<1> QED BY <1>7, <1>8, <1>9, <1>10, <1>11, <1>12 DEF Inductive

(* Moving a view empties its source, dropping it empties it: the record is  *)
(* left with its pool.                                                      *)
LEMMA ViewMoved ==
    ASSUME Inductive, NEW v \in Views,
           \/ DropView(v)
           \/ \E w \in Views : MoveView(v, w)
    PROVE  Inductive'
<1>1. StateTypeOK
  BY DEF Inductive
<1>2. UNCHANGED <<poolVars, bufferVars, faults>>
  BY DEF DropView, MoveView
<1>3. /\ record' \in [Views -> Records \cup {NoRecord}]
      /\ ViewsAreExclusive'
  <2>1. CASE DropView(v)
    BY <1>1, <1>2, <2>1 DEF DropView, StateTypeOK, Inductive, ViewsAreExclusive, bufferVars
  <2>2. ASSUME NEW w \in Views, MoveView(v, w)
        PROVE  /\ record' \in [Views -> Records \cup {NoRecord}]
               /\ ViewsAreExclusive'
    <3>1. /\ v # w /\ record' = [record EXCEPT ![v] = record[w], ![w] = NoRecord]
      BY <2>2 DEF MoveView
    <3>2. /\ record'[v] = record[w] /\ record'[w] = NoRecord
          /\ \A x \in Views \ {v, w} : record'[x] = record[x]
      BY <1>1, <3>1 DEF StateTypeOK
    <3>3. record' \in [Views -> Records \cup {NoRecord}]
      BY <1>1, <3>1 DEF StateTypeOK
    <3> QED BY <1>2, <3>2, <3>3 DEF Inductive, ViewsAreExclusive, bufferVars
  <2> QED BY <2>1, <2>2
<1>4. StateTypeOK'
  BY <1>1, <1>2, <1>3 DEF StateTypeOK, poolVars, bufferVars
<1>5. TrackingAgrees' /\ EveryAllocationOwned' /\ Tracked' /\ Pooled' /\ Described'
  BY <1>2 DEF Inductive, TrackingAgrees, EveryAllocationOwned, Tracked, Pooled, Described,
              poolVars, bufferVars
<1> QED BY <1>3, <1>4, <1>5 DEF Inductive

(* Refused calls and the failures that leave nothing behind.                *)
LEMMA CallRefused ==
    ASSUME Inductive,
           \/ \E p \in Pools :
                \/ \E d \in Descriptions :
                     \/ \E deviceLive \in BOOLEAN : CreatePoolRejected(p, deviceLive, d)
                     \/ CreatePoolFails(p, d)
                \/ AllocateRejected(p) \/ AllocateOutOfMemory(p) \/ AllocateFails(p)
                \/ \E flags \in SUBSET ResetFlags : ResetPoolRejected(p, flags)
           \/ \E v \in Views : BufferCallRejected(v)
    PROVE  Inductive'
<1>1. UNCHANGED <<poolVars, record, bufferVars>> /\ (UNCHANGED faults \/ Fault)
  BY DEF CreatePoolRejected, CreatePoolFails, AllocateRejected, AllocateOutOfMemory,
         AllocateFails, ResetPoolRejected, BufferCallRejected, Returns
<1>2. faults' \in 0..MaxFaults
  BY <1>1, LifecycleAssumption DEF Inductive, StateTypeOK, Fault
<1> QED BY <1>1, <1>2, Refused

(* begin(), end() and reset() of a view.                                    *)
LEMMA BufferCall ==
    ASSUME Inductive, NEW v \in Views,
           \/ \E flags \in SUBSET BeginFlags : Begin(v, flags)
           \/ End(v)
           \/ \E flags \in SUBSET ResetFlags : ResetBuffer(v, flags)
    PROVE  Inductive'
<1>1. StateTypeOK
  BY DEF Inductive
<1>2. record[v] # NoRecord
  BY DEF Begin, BeginError, End, EndError, ResetBuffer, ResetError
<1>3. record[v] \in Records /\ native[record[v]] \in NativeState
  BY <1>2, ViewStands DEF Inductive, StateTypeOK, Tracked
<1>4. ASSUME NEW flags \in SUBSET BeginFlags, Begin(v, flags) PROVE Inductive'
  <2>1. CASE Moves(v, "recording") /\ usage' = [usage EXCEPT ![record[v]] = flags]
    <3>1. /\ usage' \in [Records -> SUBSET BeginFlags]
          /\ \A r \in Records : r # record[v] => usage'[r] = usage[r]
      BY <1>1, <2>1 DEF StateTypeOK
    <3> QED BY <1>2, <2>1, <3>1, NativeCall
  <2>2. CASE Fails(v, {"initial", "invalid"})
    <3>1. {"initial", "invalid"} \in SUBSET NativeState
      BY DEF NativeState, CommandBufferState
    <3> QED BY <1>2, <2>2, <3>1, NativeCall
  <2> QED BY <1>4, <2>1, <2>2 DEF Begin
<1>5. ASSUME NEW s \in {"initial", "executable"}, Moves(v, s), UNCHANGED usage PROVE Inductive'
  BY <1>1, <1>2, <1>5, NativeCall DEF StateTypeOK
<1>6. CASE End(v)
  <2>1. {"invalid"} \in SUBSET NativeState
    BY DEF NativeState, CommandBufferState
  <2> QED BY <1>2, <1>5, <1>6, <2>1, NativeCall DEF End
<1>7. ASSUME NEW flags \in SUBSET ResetFlags, ResetBuffer(v, flags) PROVE Inductive'
  <2>1. {native[record[v]], "initial", "invalid"} \in SUBSET NativeState
    BY <1>3 DEF NativeState, CommandBufferState
  <2> QED BY <1>2, <1>5, <1>7, <2>1, NativeCall DEF ResetBuffer
<1> QED BY <1>4, <1>6, <1>7

-----------------------------------------------------------------------------
(* The theorems                                                            *)

LEMMA Initially == Init => Inductive
<1> SUFFICES ASSUME Init PROVE Inductive
  OBVIOUS
<1>1. StateTypeOK
  BY LifecycleAssumption DEF Init, StateTypeOK
<1>2. TrackingAgrees /\ EveryAllocationOwned /\ ViewsAreExclusive
  BY DEF Init, TrackingAgrees, EveryAllocationOwned, ViewsAreExclusive
<1>3. Tracked /\ Pooled /\ Described
  BY DEF Init, Tracked, Pooled, Described, CommandBufferState
<1> QED BY <1>1, <1>2, <1>3 DEF Inductive

LEMMA Preserved == Inductive /\ [LifecycleNext]_lifecycleVars => Inductive'
<1> SUFFICES ASSUME Inductive, [LifecycleNext]_lifecycleVars PROVE Inductive'
  OBVIOUS
<1>1. CASE UNCHANGED lifecycleVars
  BY <1>1 DEF Inductive, StateTypeOK, TrackingAgrees, EveryAllocationOwned,
              ViewsAreExclusive, Tracked, Pooled, Described, lifecycleVars
<1>2. CASE LifecycleNext
  BY <1>2, PoolCreated, PoolDestroyed, Allocated, PoolReset, ViewMoved, CallRefused, BufferCall
     DEF LifecycleNext
<1> QED BY <1>1, <1>2

(* What a call returns is one of the replies of its contract.               *)
Answered == reply \in Replies

LEMMA Answers == Answered /\ [LifecycleNext]_lifecycleVars => Answered'
<1> SUFFICES ASSUME Answered, [LifecycleNext]_lifecycleVars PROVE reply' \in Replies
  BY DEF Answered
<1> USE DEF Answered, Replies
<1>1. CASE UNCHANGED lifecycleVars
  BY <1>1 DEF lifecycleVars
<1>2. ASSUME NEW p \in Pools,
             \/ \E d \in Descriptions :
                  \/ \E deviceLive \in BOOLEAN : CreatePoolRejected(p, deviceLive, d)
                  \/ CreatePoolFails(p, d)
                  \/ CreatePool(p, d)
             \/ DestroyPool(p)
             \/ \E q \in Pools : MoveAssignPool(p, q)
             \/ AllocateRejected(p)
             \/ AllocateOutOfMemory(p)
             \/ AllocateFails(p)
             \/ \E v \in Views : Allocate(p, v)
             \/ \E flags \in SUBSET ResetFlags :
                  ResetPoolRejected(p, flags) \/ ResetPool(p, flags) \/ ResetPoolFails(p, flags)
      PROVE  reply' \in Replies
  BY <1>2
  DEF CreatePoolRejected, CreatePoolFails, CreatePool, CreateError, DestroyPool, MoveAssignPool,
      AllocateRejected, AllocateOutOfMemory, AllocateFails, Allocate, ResetPoolRejected,
      PoolResetError, ResetPool, ResetPoolFails, Returns
<1>3. ASSUME NEW v \in Views, BufferCallRejected(v) PROVE reply' \in Replies
  BY <1>3 DEF BufferCallRejected, BeginError, EndError, ResetError, Returns
<1>4. ASSUME NEW v \in Views,
             \/ \E w \in Views : MoveView(v, w)
             \/ DropView(v)
             \/ \E flags \in SUBSET BeginFlags : Begin(v, flags)
             \/ End(v)
             \/ \E flags \in SUBSET ResetFlags : ResetBuffer(v, flags)
      PROVE  reply' \in Replies
  BY <1>4 DEF MoveView, DropView, Begin, End, ResetBuffer, Moves, Fails
<1> QED BY <1>1, <1>2, <1>3, <1>4 DEF LifecycleNext

LEMMA Invariance == LifecycleSpec => []Inductive
BY Initially, Preserved, PTL DEF LifecycleSpec

(* Pools, views and records keep their types in every reachable state.      *)
THEOREM LifecycleTypes == LifecycleSpec => []TypeOK
<1>1. Init => Answered
  BY DEF Init, Answered, Replies
<1>2. LifecycleSpec => []Answered
  BY <1>1, Answers, PTL DEF LifecycleSpec
<1>3. Inductive /\ Answered => TypeOK
  BY DEF Inductive, Answered, TypeOK
<1> QED BY <1>2, <1>3, Invariance, PTL

(* The tracked state of every buffer is what Vulkan would say, for any      *)
(* number of pools, views and failures of native calls.                     *)
THEOREM TrackingIsSound == LifecycleSpec => []TrackingAgrees
<1>1. Inductive => TrackingAgrees
  BY DEF Inductive
<1> QED BY <1>1, Invariance, PTL

(* No failure, move or abandoned view strands a native allocation or leaves *)
(* it to two owners.                                                        *)
THEOREM NothingStranded == LifecycleSpec => []EveryAllocationOwned
<1>1. Inductive => EveryAllocationOwned
  BY DEF Inductive
<1> QED BY <1>1, Invariance, PTL

(* Views never share a record and never dangle.                             *)
THEOREM ViewsNeverShare == LifecycleSpec => []ViewsAreExclusive
<1>1. Inductive => ViewsAreExclusive
  BY DEF Inductive
<1> QED BY <1>1, Invariance, PTL

-----------------------------------------------------------------------------
(* Submission                                                              *)

Of(b) == batch[b].description

-----------------------------------------------------------------------------
(* What validation lets through                                            *)

(* Consecutive checks that end with "ok" have all passed.                   *)
LEMMA AllPassed ==
    ASSUME NEW results, DOMAIN results \subseteq Nat, FirstError(results) = "ok"
    PROVE  \A k \in DOMAIN results : results[k] = "ok"
<1> DEFINE refused == {k \in DOMAIN results : results[k] # "ok"}
<1>1. ASSUME refused # {} PROVE FALSE
  <2>1. \E x \in refused : \A y \in refused : ~(<<y, x>> \in OpToRel(<, Nat))
    BY <1>1, NatLessThanWellFounded, WFMin
  <2>2. \E x \in refused : \A y \in refused : x <= y
    <3>1. PICK x \in refused : \A y \in refused : ~(<<y, x>> \in OpToRel(<, Nat))
      BY <2>1
    <3>2. ASSUME NEW y \in refused PROVE x <= y
      <4>1. x \in Nat /\ y \in Nat
        OBVIOUS
      <4>2. ~(y < x)
        BY <3>1, <4>1 DEF OpToRel
      <4> QED BY <4>1, <4>2
    <3> QED BY <3>2
  <2>3. PICK x \in refused : \A y \in refused : x <= y
    BY <2>2
  <2>4. x \in DOMAIN results /\ results[x] # "ok"
    OBVIOUS
  <2>5. \A m \in DOMAIN results : m < x => results[m] = "ok"
    <3>1. ASSUME NEW m \in DOMAIN results, m < x, results[m] # "ok" PROVE FALSE
      <4>1. x <= m
        BY <2>3, <3>1
      <4>2. m \in Nat /\ x \in Nat
        BY <2>4
      <4> QED BY <3>1, <4>1, <4>2
    <3> QED BY <3>1
  <2> DEFINE first == CHOOSE k \in DOMAIN results :
                        /\ results[k] # "ok"
                        /\ \A m \in DOMAIN results : m < k => results[m] = "ok"
  <2>6. results[first] # "ok"
    <3> HIDE DEF refused
    <3> QED BY <2>4, <2>5
  <2>7. FirstError(results) = results[first]
    BY <2>4 DEF FirstError
  <2> QED BY <2>6, <2>7
<1> QED BY <1>1

\* A description that submit() accepts and whose objects are used as the
\* application must: its operations are on real semaphores, one signal each,
\* and its condition is its own fence or one of its signals of all stages.
Valid(d) ==
    LET signals == Range(d.signals)
    IN  /\ d \in Submittable
        /\ \A s \in signals \cup Range(d.waits) : s \in Semaphore /\ s.semaphore # NoSemaphore
        /\ \A s \in signals : s.semaphore \in Timelines <=> s.kind = "timeline"
        /\ \A s, u \in signals : s.semaphore = u.semaphore => s = u
        /\ IF d.condition.kind = "fence"
           THEN d.condition.object = d.fence /\ d.fence # NoFence
           ELSE \E s \in signals : Bound(s, d.condition)

LEMMA SemaphoresPassed ==
    ASSUME NEW list \in Seq(Semaphore), SemaphoresError(list) = "ok", NEW s \in Range(list)
    PROVE  s \in Semaphore /\ s.semaphore # NoSemaphore
<1>1. PICK k \in DOMAIN list : s = list[k]
  BY DEF Range
<1>2. SemaphoreError(list[k]) = "ok"
  <2> DEFINE results == [n \in DOMAIN list |-> SemaphoreError(list[n])]
  <2>1. DOMAIN results \subseteq Nat /\ FirstError(results) = "ok"
    BY DEF SemaphoresError
  <2>2. \A n \in DOMAIN results : results[n] = "ok"
    BY <2>1, AllPassed
  <2> QED BY <2>2
<1>3. Check(s.semaphore = NoSemaphore \/ s.kind = "unknown"
            \/ (s.kind = "binary" /\ s.value # 0), "invalid_semaphore") = "ok"
  <2> DEFINE results == <<
        Check(~s.plain, "invalid_native_structure"),
        Check(s.semaphore = NoSemaphore \/ s.kind = "unknown"
              \/ (s.kind = "binary" /\ s.value # 0), "invalid_semaphore"),
        Check(s.kind = "timeline" /\ ~TimelineSemaphore, "timeline_not_enabled")>>
  <2>1. DOMAIN results = 1..3 /\ FirstError(results) = "ok"
    BY <1>1, <1>2 DEF SemaphoreError
  <2>2. results[2] = "ok"
    BY <2>1, AllPassed
  <2> QED BY <2>2
<1> QED BY <1>1, <1>3 DEF Check

\* The checks of submit() that the proofs below rest on.
LEMMA SubmitPassed ==
    ASSUME NEW d, NEW vs, SubmitError(d, vs) = "ok"
    PROVE  /\ EndpointError(d, vs) = "ok" /\ BuffersError(d, vs) = "ok"
           /\ SemaphoresError(d.waits) = "ok" /\ SemaphoresError(d.signals) = "ok"
           /\ RelationError(d) = "ok" /\ BindingError(d) = "ok"
<1>1. EndpointError(d, vs) = "ok"
  BY DEF SubmitError
<1> DEFINE results == <<BuffersError(d, vs), SemaphoresError(d.waits),
                        SemaphoresError(d.signals), RelationError(d), BindingError(d)>>
<1>2. DOMAIN results = 1..5 /\ FirstError(results) = "ok"
  BY <1>1 DEF SubmitError
<1>3. \A k \in 1..5 : results[k] = "ok"
  BY <1>2, AllPassed
<1> QED BY <1>1, <1>3

LEMMA CompletionPassed ==
    ASSUME NEW d, NEW vs, EndpointError(d, vs) = "ok"
    PROVE  d.condition.object \notin {NoFence, NoSemaphore}
<1>1. CompletionError(d) = "ok"
  <2> DEFINE results == <<
        Check(d.device \notin LiveDevices, "invalid_device"),
        Check(d.queue = NoQueue, "invalid_queue"),
        Check(d.queue # NoQueue /\ QueueOf[d.queue].device # d.device, "parent_mismatch"),
        Check(~Synchronization2, "synchronization2_not_enabled"),
        Check(vs = <<>>, "invalid_batch"),
        Check(d.completionDevice # d.device \/ d.completionQueue # d.queue, "invalid_completion"),
        CompletionError(d)>>
  <2>1. DOMAIN results = 1..7 /\ FirstError(results) = "ok"
    BY DEF EndpointError
  <2>2. results[7] = "ok"
    BY <2>1, AllPassed
  <2> QED BY <2>2
<1>2. Check(d.condition.object \in {NoFence, NoSemaphore}, "invalid_completion") = "ok"
  <2> DEFINE results == <<
        Check(d.completionDevice \notin LiveDevices, "invalid_device"),
        Check(d.completionQueue = NoQueue, "invalid_queue"),
        Check(d.completionQueue # NoQueue
                /\ QueueOf[d.completionQueue].device # d.completionDevice, "parent_mismatch"),
        Check(~d.identified, "invalid_completion"),
        Check(d.condition.kind = "timeline" /\ ~TimelineSemaphore, "timeline_not_enabled"),
        Check(d.condition.object \in {NoFence, NoSemaphore}, "invalid_completion")>>
  <2>1. DOMAIN results = 1..6 /\ FirstError(results) = "ok"
    BY <1>1 DEF CompletionError
  <2>2. results[6] = "ok"
    BY <2>1, AllPassed
  <2> QED BY <2>2
<1> QED BY <1>2 DEF Check

LEMMA SubmitValid ==
    ASSUME NEW d \in Submittable, NEW vs, SubmitError(d, vs) = "ok", SynchronizationUnused(d)
    PROVE  Valid(d)
<1>1. /\ SemaphoresError(d.waits) = "ok" /\ SemaphoresError(d.signals) = "ok"
      /\ RelationError(d) = "ok" /\ BindingError(d) = "ok"
      /\ d.condition.object \notin {NoFence, NoSemaphore}
  BY SubmitPassed, CompletionPassed
<1>2. d.waits \in Seq(Semaphore) /\ d.signals \in Seq(Semaphore)
  BY SubmissionAssumption
<1>3. \A s \in Range(d.signals) \cup Range(d.waits) : s \in Semaphore /\ s.semaphore # NoSemaphore
  BY <1>1, <1>2, SemaphoresPassed
<1>4. \A s \in Range(d.signals) : s.semaphore \in Timelines <=> s.kind = "timeline"
  BY <1>3, SubmissionAssumption DEF SynchronizationUnused, Semaphore
<1>5. \A s, u \in Range(d.signals) : s.semaphore = u.semaphore => s = u
  BY <1>1 DEF RelationError, Check, Duplicates, Range
<1>6. IF d.condition.kind = "fence"
      THEN d.condition.object = d.fence
      ELSE \E s \in Range(d.signals) : Bound(s, d.condition)
  BY <1>1 DEF BindingError, Check
<1> QED BY <1>1, <1>3, <1>4, <1>5, <1>6 DEF Valid

-----------------------------------------------------------------------------
(* The invariant of the GPU's side                                         *)

BatchTypeOK ==
    /\ DOMAIN batch = Batches
    /\ progress \in [Batches -> {"none", "queued", "running", "early", "done"}]
    /\ counter \in [Timelines -> Nat]
    /\ \A b \in Accepted : Valid(Of(b)) /\ batch[b].buffers \subseteq Records

\* A fence is some one pending batch's and unsignaled until that batch ends;
\* a batch that has ended has signaled it, as long as its receipt is not void.
FencesInv ==
    /\ \A b, c \in Accepted : b # c /\ Pending(b) /\ Pending(c) /\ Of(b).fence = Of(c).fence =>
         Of(b).fence = NoFence
    /\ \A b \in Accepted : Pending(b) /\ Of(b).fence # NoFence => Of(b).fence \notin raised
    /\ \A b \in Accepted \ void : progress[b] = "done" /\ Of(b).condition.kind = "fence" =>
         Of(b).condition.object \in raised

\* A timeline has reached exactly the values of the signals performed so far,
\* and no two batches signal the same value.
TimelinesInv ==
    /\ \A b \in Accepted : \A s \in Signals(b) : s.semaphore \in Timelines =>
         (Fired(b, s) <=> counter[s.semaphore] >= s.value)
    /\ \A b, c \in Accepted : b # c =>
         \A s \in Signals(b), u \in Signals(c) :
           s.semaphore = u.semaphore /\ s.semaphore \in Timelines => s.value # u.value

\* Vulkan keeps every buffer of a pending batch pending.
BuffersInv == \A b \in Accepted : Pending(b) => \A r \in batch[b].buffers : native[r] = "pending"

ReceiptsInv == BatchTypeOK /\ FencesInv /\ TimelinesInv

(* The observed object is signalled exactly when the batch has ended.       *)
LEMMA ReceiptsFollow == ReceiptsInv => ReceiptFollowsItsBatch
<1> SUFFICES ASSUME ReceiptsInv, NEW b \in Accepted \ void
             PROVE  Signalled(b) <=> progress[b] = "done"
  BY DEF ReceiptFollowsItsBatch
<1>1. /\ b \in Batches /\ Valid(Of(b))
      /\ progress[b] \in {"queued", "running", "early", "done"}
  BY DEF ReceiptsInv, BatchTypeOK, Accepted
<1>2. CASE Of(b).condition.kind = "fence"
  BY <1>1, <1>2 DEF ReceiptsInv, FencesInv, Signalled, Valid, Of, Pending
<1>3. CASE Of(b).condition.kind # "fence"
  <2>1. PICK s \in Range(Of(b).signals) : Bound(s, Of(b).condition)
    BY <1>1, <1>3 DEF Valid
  <2>2. s.semaphore \in Timelines /\ s \in Signals(b)
    BY <1>1, <2>1 DEF Valid, Bound, Signals, Of
  <2>3. Fired(b, s) <=> progress[b] = "done"
    BY <1>1, <2>1 DEF Fired, Bound
  <2>4. Fired(b, s) <=> counter[s.semaphore] >= s.value
    BY <2>2 DEF ReceiptsInv, TimelinesInv
  <2> QED BY <1>3, <2>1, <2>3, <2>4 DEF Signalled, Bound, Of
<1> QED BY <1>2, <1>3

-----------------------------------------------------------------------------
(* The steps of submit() and of the GPU                                    *)

LEMMA SubmitKeepsReceipts ==
    ASSUME Inductive, ReceiptsInv, NEW d \in Submittable, NEW vs \in BufferLists, Submit(d, vs)
    PROVE  ReceiptsInv'
<1>1. PICK b \in Batches \ Accepted :
        /\ batch' = [batch EXCEPT ![b] = [description |-> d,
                                          buffers |-> {record[v] : v \in Range(vs)}]]
        /\ progress' = [progress EXCEPT ![b] = "queued"]
  BY DEF Submit
<1>2. /\ SubmitError(d, vs) = "ok" /\ SynchronizationUnused(d)
      /\ UNCHANGED <<counter, raised, void>>
  BY DEF Submit
<1>3. Valid(d)
  BY <1>2, SubmitValid
<1>4. \A v \in Range(vs) : record[v] \in Records
  <2>1. DOMAIN vs \subseteq Nat /\ \A k \in DOMAIN vs : vs[k] \in Views
    BY DEF BufferLists
  <2>2. \A k \in DOMAIN vs : BufferError(d, vs[k]) = "ok"
    <3> DEFINE results == [k \in DOMAIN vs |-> BufferError(d, vs[k])]
    <3>1. FirstError(results) = "ok" /\ DOMAIN results \subseteq Nat
      BY <1>2, <2>1, SubmitPassed DEF BuffersError
    <3>2. \A k \in DOMAIN results : results[k] = "ok"
      BY <3>1, AllPassed
    <3> QED BY <3>2
  <2>3. \A k \in DOMAIN vs : record[vs[k]] # NoRecord
    BY <2>2 DEF BufferError, StateOf
  <2> QED BY <2>1, <2>3 DEF Range, Inductive, StateTypeOK
<1>5. /\ batch'[b].description = d /\ batch'[b].buffers = {record[v] : v \in Range(vs)}
      /\ progress'[b] = "queued"
      /\ \A c \in Batches \ {b} : batch'[c] = batch[c] /\ progress'[c] = progress[c]
      /\ DOMAIN batch' = Batches
      /\ progress' \in [Batches -> {"none", "queued", "running", "early", "done"}]
  BY <1>1 DEF ReceiptsInv, BatchTypeOK
<1>6. Accepted' = Accepted \cup {b} /\ b \notin Accepted
  BY <1>1, <1>5 DEF Accepted
<1>7. BatchTypeOK'
  <2>1. batch'[b].buffers \subseteq Records
    BY <1>4, <1>5
  <2>2. Valid(d)'
    BY <1>3 DEF Valid, Bound, Semaphore
  <2>3. ASSUME NEW c \in Accepted PROVE Valid(Of(c))' /\ batch'[c].buffers \subseteq Records
    <3>1. batch'[c] = batch[c]
      BY <1>5, <1>6, <2>3 DEF Accepted
    <3> QED BY <3>1, <2>3 DEF ReceiptsInv, BatchTypeOK, Of, Valid, Bound
  <2> QED BY <1>2, <1>5, <1>6, <2>1, <2>2, <2>3 DEF ReceiptsInv, BatchTypeOK, Of
<1>8. FencesInv'
  <2>1. d.fence # NoFence => /\ d.fence \notin raised
                             /\ \A c \in Accepted : Pending(c) => Of(c).fence # d.fence
    BY <1>2 DEF SynchronizationUnused, Of
  <2>2. \A c \in Accepted : /\ c # b /\ Of(c)' = Of(c) /\ progress'[c] = progress[c]
                            /\ Pending(c)' <=> Pending(c)
    BY <1>5, <1>6 DEF Of, Pending, Accepted
  <2>3. Of(b)' = d
    BY <1>5 DEF Of
  <2> QED BY <1>2, <1>5, <1>6, <2>1, <2>2, <2>3 DEF ReceiptsInv, FencesInv
<1>9. TimelinesInv'
  <2>1. ASSUME NEW s \in Range(d.signals), s.semaphore \in Timelines
        PROVE  /\ s.value > counter[s.semaphore] /\ s.value \in Nat
               /\ \A c \in Accepted : \A u \in Signals(c) :
                    u.semaphore = s.semaphore => u.value < s.value /\ u.value \in Nat
    <3>1. s \in Semaphore
      BY <1>3 DEF Valid
    <3>2. \A c \in Accepted : \A u \in Signals(c) : u \in Semaphore
      BY DEF ReceiptsInv, BatchTypeOK, Valid, Signals, Of
    <3> QED BY <1>2, <2>1, <3>1, <3>2 DEF SynchronizationUnused, Semaphore
  <2>2. \A c \in Accepted : /\ c # b /\ Signals(c)' = Signals(c)
                            /\ \A s \in Signals(c) : Fired(c, s)' <=> Fired(c, s)
    BY <1>5, <1>6 DEF Signals, Fired, Accepted
  <2>3. Signals(b)' = Range(d.signals) /\ \A s : ~Fired(b, s)'
    BY <1>5 DEF Signals, Fired
  <2>4. \A s \in Range(d.signals) : s.semaphore \in Timelines =>
          ~(counter[s.semaphore] >= s.value)
    BY <2>1 DEF ReceiptsInv, BatchTypeOK
  <2>5. \A c \in Accepted' : \A s \in Signals(c)' : s.semaphore \in Timelines =>
          (Fired(c, s)' <=> counter[s.semaphore] >= s.value)
    BY <1>6, <2>2, <2>3, <2>4 DEF ReceiptsInv, TimelinesInv
  <2>6. \A c, e \in Accepted' : c # e =>
          \A s \in Signals(c)', u \in Signals(e)' :
            s.semaphore = u.semaphore /\ s.semaphore \in Timelines => s.value # u.value
    BY <1>6, <2>1, <2>2, <2>3 DEF ReceiptsInv, TimelinesInv
  <2> QED BY <1>2, <2>5, <2>6 DEF TimelinesInv
<1> QED BY <1>7, <1>8, <1>9 DEF ReceiptsInv

(* Batch b goes on to progress p: what that does to all batches.            *)
LEMMA Progress ==
    ASSUME BatchTypeOK, NEW b \in Accepted, NEW p \in {"running", "early", "done"},
           progress' = [progress EXCEPT ![b] = p], UNCHANGED batch, counter' \in [Timelines -> Nat]
    PROVE  /\ BatchTypeOK'
           /\ Accepted' = Accepted
           /\ progress'[b] = p /\ \A c \in Accepted \ {b} : progress'[c] = progress[c]
           /\ \A c \in Accepted : Of(c)' = Of(c) /\ Signals(c)' = Signals(c)
<1>1. /\ progress'[b] = p /\ \A c \in Batches \ {b} : progress'[c] = progress[c]
      /\ progress' \in [Batches -> {"none", "queued", "running", "early", "done"}]
  BY DEF BatchTypeOK, Accepted
<1>2. Accepted' = Accepted
  BY <1>1 DEF Accepted
<1>3. \A c \in Accepted : Of(c)' = Of(c) /\ Signals(c)' = Signals(c)
  BY DEF Of, Signals
<1>4. BatchTypeOK'
  <2>1. \A c \in Accepted : Valid(Of(c))'
    BY <1>3 DEF BatchTypeOK, Valid, Bound
  <2> QED BY <1>1, <1>2, <2>1 DEF BatchTypeOK
<1> QED BY <1>1, <1>2, <1>3, <1>4 DEF Accepted

(* Operations of b that take effect in turn.                                *)
LEMMA FireKeepsTimelines ==
    ASSUME ReceiptsInv, NEW b \in Accepted, NEW p \in {"early", "done"},
           progress' = [progress EXCEPT ![b] = p], UNCHANGED batch,
           NEW ops, ops \subseteq Signals(b), NEW fences, Fire(ops, fences), InTurn(b, ops),
           \A s \in ops : ~Fired(b, s),
           \A s \in Signals(b) : Fired(b, s)' <=> Fired(b, s) \/ s \in ops
    PROVE  TimelinesInv' /\ counter' \in [Timelines -> Nat]
<1>1. \A c \in Accepted : /\ Valid(Of(c))
                          /\ \A s \in Signals(c) : s \in Semaphore /\ s.value \in Nat
  BY DEF ReceiptsInv, BatchTypeOK, Valid, Signals, Of, Semaphore
<1>2. \A s, u \in ops : s.semaphore = u.semaphore => s = u
  BY <1>1 DEF Valid, Signals, Of
<1>3. ASSUME NEW t \in Timelines, NEW s \in ops, s.semaphore = t
      PROVE  counter'[t] = s.value
  BY <1>2, <1>3 DEF Fire
<1>4. ASSUME NEW t \in Timelines, ~\E s \in ops : s.semaphore = t
      PROVE  counter'[t] = counter[t]
  BY <1>4 DEF Fire
<1>5. counter' \in [Timelines -> Nat]
  <2>1. \A t \in Timelines : counter'[t] \in Nat
    BY <1>1, <1>3, <1>4 DEF ReceiptsInv, BatchTypeOK
  <2>2. counter' = [t \in Timelines |-> counter'[t]]
    BY DEF Fire
  <2> QED BY <2>1, <2>2
<1>6. /\ Accepted' = Accepted
      /\ \A c \in Accepted : Signals(c)' = Signals(c)
      /\ \A c \in Accepted \ {b} : progress'[c] = progress[c]
  BY <1>5, Progress DEF ReceiptsInv
<1>7. ASSUME NEW c \in Accepted, NEW u \in Signals(c), u.semaphore \in Timelines
      PROVE  Fired(c, u)' <=> counter'[u.semaphore] >= u.value
  <2> DEFINE t == u.semaphore
  <2>1. counter[t] \in Nat /\ u.value \in Nat /\ (Fired(c, u) <=> counter[t] >= u.value)
    BY <1>1, <1>7 DEF ReceiptsInv, BatchTypeOK, TimelinesInv
  <2>2. CASE ~\E s \in ops : s.semaphore = t
    <3>1. Fired(c, u)' <=> Fired(c, u)
      BY <1>6, <2>2 DEF Fired
    <3> QED BY <1>4, <1>7, <2>1, <2>2, <3>1
  <2>3. CASE \E s \in ops : s.semaphore = t
    <3>1. PICK s \in ops : s.semaphore = t
      BY <2>3
    <3>2. /\ counter'[t] = s.value /\ s.value \in Nat /\ s \in Signals(b)
          /\ s.kind = "timeline" /\ counter[t] < s.value
      <4>1. s \in Signals(b) /\ s.value \in Nat /\ ~Fired(b, s)
        BY <1>1
      <4>2. ~(counter[t] >= s.value)
        BY <1>7, <3>1, <4>1 DEF ReceiptsInv, TimelinesInv
      <4>3. s.kind = "timeline"
        BY <1>1, <1>7, <3>1, <4>1 DEF Valid, Signals, Of
      <4> QED BY <1>3, <1>7, <2>1, <3>1, <4>1, <4>2, <4>3
    <3>3. CASE c = b
      <4>1. u = s
        BY <1>1, <3>1, <3>2, <3>3 DEF Valid, Signals, Of
      <4> QED BY <3>2, <3>3, <4>1
    <3>4. CASE c # b
      <4>1. Fired(c, u)' <=> Fired(c, u)
        BY <1>6, <3>4 DEF Fired
      <4>2. u.value # s.value
        BY <1>7, <3>1, <3>2, <3>4 DEF ReceiptsInv, TimelinesInv
      <4>3. ~Fired(c, u) => u.value >= s.value
        BY <3>1, <3>2 DEF InTurn
      <4> QED BY <2>1, <3>2, <4>1, <4>2, <4>3
    <3> QED BY <3>3, <3>4
  <2> QED BY <2>2, <2>3
<1>8. TimelinesInv'
  BY <1>6, <1>7 DEF ReceiptsInv, TimelinesInv
<1> QED BY <1>5, <1>8

LEMMA StartKeepsReceipts ==
    ASSUME ReceiptsInv, NEW b \in Batches, Start(b)
    PROVE  ReceiptsInv'
<1>1. /\ b \in Accepted /\ progress[b] = "queued"
      /\ progress' = [progress EXCEPT ![b] = "running"]
      /\ raised' = raised \ {w.semaphore : w \in Waits(b)}
      /\ UNCHANGED <<batch, counter, void>>
  BY DEF Start, Accepted
<1>2. /\ BatchTypeOK' /\ Accepted' = Accepted /\ progress'[b] = "running"
      /\ \A c \in Accepted \ {b} : progress'[c] = progress[c]
      /\ \A c \in Accepted : Of(c)' = Of(c) /\ Signals(c)' = Signals(c)
  BY <1>1, Progress DEF ReceiptsInv, BatchTypeOK
<1>3. FencesInv'
  <2>1. \A c \in Accepted : Pending(c)' <=> Pending(c)
    BY <1>1, <1>2 DEF Pending
  <2>2. ASSUME NEW c \in Accepted, Of(c).condition.kind = "fence"
        PROVE  Of(c).condition.object \in raised' <=> Of(c).condition.object \in raised
    <3>1. Of(c).condition.object \in Fences
      BY <2>2, SubmissionAssumption DEF ReceiptsInv, BatchTypeOK, Valid
    <3>2. \A w \in Waits(b) : w.semaphore \in Timelines \cup Binaries \cup {NoSemaphore}
      BY <1>1 DEF ReceiptsInv, BatchTypeOK, Valid, Waits, Of, Semaphore
    <3> QED BY <1>1, <3>1, <3>2, SubmissionAssumption
  <2>3. \A c \in Accepted : progress'[c] = "done" <=> progress[c] = "done"
    BY <1>1, <1>2
  <2> QED BY <1>1, <1>2, <2>1, <2>2, <2>3 DEF ReceiptsInv, FencesInv
<1>4. TimelinesInv'
  <2>1. \A c \in Accepted : \A s \in Signals(c) : Fired(c, s)' <=> Fired(c, s)
    BY <1>1, <1>2 DEF Fired
  <2> QED BY <1>1, <1>2, <2>1 DEF ReceiptsInv, TimelinesInv
<1> QED BY <1>2, <1>3, <1>4 DEF ReceiptsInv

LEMMA EarlyKeepsReceipts ==
    ASSUME ReceiptsInv, NEW b \in Batches, EarlyStages(b)
    PROVE  ReceiptsInv'
<1> DEFINE ops == {s \in Signals(b) : s.stage = "early"}
<1>1. /\ b \in Accepted /\ progress[b] = "running"
      /\ progress' = [progress EXCEPT ![b] = "early"]
      /\ InTurn(b, ops) /\ Fire(ops, {})
      /\ UNCHANGED <<batch, void>>
  BY DEF EarlyStages, Accepted
<1>2. progress'[b] = "early"
  BY <1>1 DEF ReceiptsInv, BatchTypeOK
<1>3. TimelinesInv' /\ counter' \in [Timelines -> Nat]
  <2>1. \A s \in ops : ~Fired(b, s)
    BY <1>1 DEF Fired
  <2>2. \A s \in Signals(b) : Fired(b, s)' <=> Fired(b, s) \/ s \in ops
    BY <1>1, <1>2 DEF Fired
  <2>3. ops \subseteq Signals(b)
    OBVIOUS
  <2> HIDE DEF ops
  <2> QED BY <1>1, <2>1, <2>2, <2>3, FireKeepsTimelines
<1>4. /\ BatchTypeOK' /\ Accepted' = Accepted
      /\ \A c \in Accepted \ {b} : progress'[c] = progress[c]
      /\ \A c \in Accepted : Of(c)' = Of(c)
  BY <1>1, <1>3, Progress DEF ReceiptsInv
<1>5. FencesInv'
  <2>1. \A c \in Accepted : /\ Pending(c)' <=> Pending(c)
                            /\ progress'[c] = "done" <=> progress[c] = "done"
    BY <1>1, <1>2, <1>4 DEF Pending
  <2>2. raised' = raised \cup {s.semaphore : s \in {x \in ops : x.kind = "binary"}}
    BY <1>1 DEF Fire
  <2>3. \A s \in ops : s.semaphore \in Timelines \cup Binaries \cup {NoSemaphore}
    BY <1>1 DEF ReceiptsInv, BatchTypeOK, Valid, Signals, Of, Semaphore
  <2>4. ASSUME NEW c \in Accepted, Of(c).fence # NoFence
        PROVE  Of(c).fence \in raised' <=> Of(c).fence \in raised
    <3>1. Of(c).fence \in Fences
      BY <2>4, SubmissionAssumption DEF ReceiptsInv, BatchTypeOK, Valid
    <3> QED BY <2>2, <2>3, <3>1, SubmissionAssumption
  <2> QED BY <1>1, <1>4, <2>1, <2>2, <2>4 DEF ReceiptsInv, FencesInv
<1> QED BY <1>3, <1>4, <1>5 DEF ReceiptsInv

LEMMA FinishKeepsReceipts ==
    ASSUME ReceiptsInv, NEW b \in Batches, Finish(b)
    PROVE  ReceiptsInv'
<1> DEFINE ops == {s \in Signals(b) : s.stage = "all"}
           fences == {Of(b).fence} \ {NoFence}
<1>1. /\ b \in Accepted /\ progress[b] = "early"
      /\ progress' = [progress EXCEPT ![b] = "done"]
      /\ InTurn(b, ops) /\ Fire(ops, fences)
      /\ UNCHANGED <<batch, void>>
  BY DEF Finish, Accepted, Of
<1>2. progress'[b] = "done"
  BY <1>1 DEF ReceiptsInv, BatchTypeOK
<1>3. TimelinesInv' /\ counter' \in [Timelines -> Nat]
  <2>1. \A s \in ops : ~Fired(b, s)
    BY <1>1 DEF Fired
  <2>2. \A s \in Signals(b) : s.stage \in {"all", "early"}
    BY <1>1 DEF ReceiptsInv, BatchTypeOK, Valid, Signals, Of, Semaphore
  <2>3. \A s \in Signals(b) : Fired(b, s)' <=> Fired(b, s) \/ s \in ops
    BY <1>1, <1>2, <2>2 DEF Fired
  <2>4. ops \subseteq Signals(b)
    OBVIOUS
  <2> HIDE DEF ops
  <2> QED BY <1>1, <2>1, <2>3, <2>4, FireKeepsTimelines
<1>4. /\ BatchTypeOK' /\ Accepted' = Accepted
      /\ \A c \in Accepted \ {b} : progress'[c] = progress[c]
      /\ \A c \in Accepted : Of(c)' = Of(c)
  BY <1>1, <1>3, Progress DEF ReceiptsInv
<1>5. FencesInv'
  <2>1. /\ Pending(b) /\ ~Pending(b)'
        /\ \A c \in Accepted \ {b} : /\ Pending(c)' <=> Pending(c)
                                     /\ progress'[c] = "done" <=> progress[c] = "done"
    BY <1>1, <1>2, <1>4 DEF Pending
  <2>2. raised' = raised \cup fences \cup {s.semaphore : s \in {x \in ops : x.kind = "binary"}}
    BY <1>1 DEF Fire
  <2>3. \A s \in ops : s.semaphore \in Timelines \cup Binaries \cup {NoSemaphore}
    BY <1>1 DEF ReceiptsInv, BatchTypeOK, Valid, Signals, Of, Semaphore
  <2>4. ASSUME NEW c \in Accepted, Of(c).fence # NoFence, Of(c).fence # Of(b).fence
        PROVE  Of(c).fence \in raised' <=> Of(c).fence \in raised
    <3>1. Of(c).fence \in Fences
      BY <2>4, SubmissionAssumption DEF ReceiptsInv, BatchTypeOK, Valid
    <3> QED BY <2>2, <2>3, <2>4, <3>1, SubmissionAssumption
  <2>5. Of(b).condition.kind = "fence" => Of(b).condition.object \in raised'
    BY <1>1, <2>2 DEF ReceiptsInv, BatchTypeOK, Valid
  <2>6. \A c, e \in Accepted : c # e /\ Pending(c)' /\ Pending(e)' /\ Of(c).fence = Of(e).fence =>
          Of(c).fence = NoFence
    BY <2>1 DEF ReceiptsInv, FencesInv
  <2>7. ASSUME NEW c \in Accepted, Pending(c)', Of(c).fence # NoFence
        PROVE  Of(c).fence \notin raised'
    <3>1. c # b /\ Pending(c)
      BY <2>1, <2>7
    <3>2. Of(c).fence # Of(b).fence
      BY <1>1, <2>1, <2>7, <3>1 DEF ReceiptsInv, FencesInv
    <3> QED BY <2>4, <2>7, <3>1, <3>2 DEF ReceiptsInv, FencesInv
  <2>8. \A c \in Accepted \ void : progress'[c] = "done" /\ Of(c).condition.kind = "fence" =>
          Of(c).condition.object \in raised'
    BY <2>1, <2>2, <2>5 DEF ReceiptsInv, FencesInv
  <2> QED BY <1>1, <1>4, <2>6, <2>7, <2>8 DEF FencesInv
<1> QED BY <1>3, <1>4, <1>5 DEF ReceiptsInv

LEMMA ResetKeepsReceipts ==
    ASSUME ReceiptsInv, NEW f \in Fences, ResetFence(f)
    PROVE  ReceiptsInv'
<1>1. /\ raised' = raised \ {f}
      /\ void' = void \cup {b \in Accepted : Of(b).condition.object = f}
      /\ UNCHANGED <<batch, progress, counter>>
  BY DEF ResetFence, Of
<1>2. BatchTypeOK' /\ Accepted' = Accepted
  BY <1>1 DEF ReceiptsInv, BatchTypeOK, Accepted, Of, Valid, Bound
<1>3. FencesInv'
  BY <1>1, <1>2 DEF ReceiptsInv, FencesInv, Of, Pending
<1>4. TimelinesInv'
  BY <1>1, <1>2 DEF ReceiptsInv, TimelinesInv, Signals, Fired
<1> QED BY <1>2, <1>3, <1>4 DEF ReceiptsInv

(* A refused submission changes what is returned and nothing else.          *)
LEMMA RejectionsChangeNothing ==
    SubmitRejected => UNCHANGED <<poolVars, record, bufferVars, faults, gpuVars>>
BY DEF SubmitRejected

(* Whatever leaves the GPU, the batches and the fences alone.               *)
LEMMA OthersKeepReceipts ==
    ASSUME ReceiptsInv, UNCHANGED <<batch, progress, counter, raised, void>>
    PROVE  ReceiptsInv'
<1>1. BatchTypeOK' /\ Accepted' = Accepted
  BY DEF ReceiptsInv, BatchTypeOK, Accepted, Of, Valid, Bound
<1> QED BY <1>1 DEF ReceiptsInv, FencesInv, TimelinesInv, Of, Pending, Signals, Fired

LEMMA ReceiptsKept == Inductive /\ ReceiptsInv /\ [Next]_vars => ReceiptsInv'
<1> SUFFICES ASSUME Inductive, ReceiptsInv, [Next]_vars PROVE ReceiptsInv'
  OBVIOUS
<1>1. CASE \/ UNCHANGED vars
           \/ LifecycleNext /\ UNCHANGED gpuVars
           \/ SubmitRejected
           \/ \E d \in Submittable, vs \in BufferLists : SubmitFails(d, vs)
           \/ \E b \in Batches, waiting \in BOOLEAN : Observe(b, waiting)
           \/ \E b \in Batches : InitialCompletion(b)
  BY <1>1, OthersKeepReceipts, RejectionsChangeNothing
  DEF vars, gpuVars, SubmitFails, Observe, InitialCompletion
<1> QED BY <1>1, SubmitKeepsReceipts, StartKeepsReceipts, EarlyKeepsReceipts, FinishKeepsReceipts,
           ResetKeepsReceipts
        DEF Next

-----------------------------------------------------------------------------
(* The buffers the GPU executes                                            *)

(* The calls on pools and views leave alone what executes: tracking agrees, *)
(* so they refuse it, or the application may not make them.                 *)
LEMMA LifecycleKeepsPending ==
    ASSUME Inductive, LifecycleNext, NEW r \in Records, native[r] = "pending"
    PROVE  native'[r] = "pending"
<1>1. /\ native \in [Records -> NativeState \cup {"none", "gone"}]
      /\ state[r] \notin {"initial", "recording", "none", "gone"}
  BY DEF Inductive, StateTypeOK, TrackingAgrees
<1>2. ASSUME NEW p \in Pools, DestroyPool(p) \/ \E q \in Pools : MoveAssignPool(p, q)
      PROVE  native'[r] = native[r]
  BY <1>2 DEF DestroyPool, MoveAssignPool, MayDestroy, Destroyed
<1>3. ASSUME NEW p \in Pools, NEW v \in Views, Allocate(p, v) PROVE native'[r] = native[r]
  BY <1>1, <1>3 DEF Allocate
<1>4. ASSUME NEW p \in Pools, NEW flags, ResetPool(p, flags) \/ ResetPoolFails(p, flags)
      PROVE  native'[r] = native[r]
  BY <1>4 DEF ResetPool, ResetPoolFails, Quiescent
<1>5. ASSUME NEW v \in Views, NEW flags, Begin(v, flags) \/ End(v) \/ ResetBuffer(v, flags)
      PROVE  native'[r] = native[r]
  <2>1. record[v] # r
    BY <1>1, <1>5 DEF Begin, BeginError, End, EndError, ResetBuffer, ResetError, StateOf
  <2> QED BY <1>1, <1>5, <2>1 DEF Begin, End, ResetBuffer, Moves, Fails
<1> QED BY <1>2, <1>3, <1>4, <1>5
        DEF LifecycleNext, CreatePoolRejected, CreatePoolFails, CreatePool, AllocateRejected,
            AllocateOutOfMemory, AllocateFails, ResetPoolRejected, MoveView, DropView,
            BufferCallRejected, Returns, bufferVars

(* The queues move a buffer that was recorded to its end from Vulkan state  *)
(* to Vulkan state, which no record follows.                                *)
LEMMA QueuesKeep ==
    ASSUME Inductive, UNCHANGED <<poolVars, record, state, usage, faults>>,
           native' \in [Records -> NativeState \cup {"none", "gone"}],
           \A r \in Records : native'[r] # native[r] =>
             /\ state[r] \in {"executable", "invalid"}
             /\ \/ native'[r] \in {"executable", "pending"}
                \/ native'[r] = "invalid" /\ "oneTimeSubmit" \in usage[r]
    PROVE  Inductive'
<1>1. \A r \in Records : native'[r] \notin {"none", "gone"} <=> native[r] \notin {"none", "gone"}
  BY DEF Inductive, Tracked, CommandBufferState
<1>2. StateTypeOK' /\ TrackingAgrees' /\ ViewsAreExclusive' /\ Pooled' /\ Described'
  BY DEF Inductive, StateTypeOK, TrackingAgrees, ViewsAreExclusive, Pooled, Described, poolVars
<1>3. EveryAllocationOwned' /\ Tracked'
  BY <1>1 DEF Inductive, EveryAllocationOwned, Tracked, poolVars
<1> QED BY <1>2, <1>3 DEF Inductive

(* Each buffer of a batch passed the check of its own view.                 *)
LEMMA BuffersPassed ==
    ASSUME Inductive, NEW d, NEW vs \in BufferLists, SubmitError(d, vs) = "ok",
           BuffersReusable(vs), NEW v \in Range(vs)
    PROVE  LET r == record[v]
               pool == description[Owner(r)]
           IN  /\ r \in Records /\ state[r] = "executable"
               /\ native[r] = "executable" \/ (native[r] = "pending" /\ usage[r] = {"simultaneousUse"})
               /\ pool.family = QueueOf[d.queue].family
               /\ "protected" \notin pool.flags
<1> DEFINE r == record[v]
           pool == description[Owner(r)]
<1>1. PICK k \in DOMAIN vs : v = vs[k]
  BY DEF Range
<1>2. v \in Views /\ DOMAIN vs \subseteq Nat
  BY <1>1 DEF BufferLists
<1>3. BufferError(d, v) = "ok"
  <2> DEFINE results == [n \in DOMAIN vs |-> BufferError(d, vs[n])]
  <2>1. FirstError(results) = "ok" /\ DOMAIN results \subseteq Nat
    BY <1>2, SubmitPassed DEF BuffersError
  <2>2. \A n \in DOMAIN results : results[n] = "ok"
    BY <2>1, AllPassed
  <2> QED BY <1>1, <2>2
<1>4. StateOf(v) = "executable"
  BY <1>3 DEF BufferError
<1>5. r \in Records /\ r # NoRecord /\ state[r] = "executable"
  BY <1>2, <1>4 DEF StateOf, Inductive, StateTypeOK
<1>6. pool.family = QueueOf[d.queue].family /\ "protected" \notin pool.flags
  <2> DEFINE results == <<
        Check(PoolDevice # d.device, "parent_mismatch"),
        Check(pool.family # QueueOf[d.queue].family, "family_mismatch"),
        Check("protected" \in pool.flags, "protected_allocation")>>
  <2>1. FirstError(results) = "ok" /\ DOMAIN results = 1..3
    BY <1>3, <1>4 DEF BufferError
  <2>2. results[2] = "ok" /\ results[3] = "ok"
    BY <2>1, AllPassed
  <2> QED BY <2>2 DEF Check
<1>7. native[r] = "executable" \/ (native[r] = "pending" /\ usage[r] = {"simultaneousUse"})
  BY <1>5 DEF BuffersReusable, Inductive, TrackingAgrees
<1> QED BY <1>5, <1>6, <1>7

LEMMA SubmitKeepsBuffers ==
    ASSUME Inductive, ReceiptsInv, BuffersInv, NEW d \in Submittable, NEW vs \in BufferLists,
           Submit(d, vs)
    PROVE  Inductive' /\ BuffersInv'
<1> DEFINE taken == {record[v] : v \in Range(vs)}
<1>1. /\ native' = [r \in Records |-> IF r \in taken THEN "pending" ELSE native[r]]
      /\ UNCHANGED <<poolVars, record, state, usage, faults>>
  BY DEF Submit
<1>2. \A r \in taken : r \in Records /\ state[r] = "executable"
  BY BuffersPassed DEF Submit
<1>3. Inductive'
  <2>1. native' \in [Records -> NativeState \cup {"none", "gone"}]
    BY <1>1 DEF Inductive, StateTypeOK, NativeState
  <2>2. \A r \in Records : native'[r] # native[r] =>
          state[r] \in {"executable", "invalid"} /\ native'[r] \in {"executable", "pending"}
    BY <1>1, <1>2
  <2> QED BY <1>1, <2>1, <2>2, QueuesKeep
<1>4. PICK b \in Batches \ Accepted :
        /\ batch' = [batch EXCEPT ![b] = [description |-> d, buffers |-> taken]]
        /\ progress' = [progress EXCEPT ![b] = "queued"]
  BY DEF Submit
<1>5. ASSUME NEW c \in Accepted', Pending(c)', NEW r \in batch'[c].buffers
      PROVE  native'[r] = "pending"
  <2>1. CASE c = b
    BY <1>1, <1>2, <1>4, <1>5, <2>1 DEF ReceiptsInv, BatchTypeOK
  <2>2. CASE c # b
    <3>1. c \in Accepted /\ Pending(c) /\ batch'[c] = batch[c]
      BY <1>4, <1>5, <2>2 DEF Accepted, Pending, ReceiptsInv, BatchTypeOK
    <3>2. r \in Records /\ native[r] = "pending"
      BY <1>5, <3>1 DEF BuffersInv, ReceiptsInv, BatchTypeOK
    <3> QED BY <1>1, <3>2
  <2> QED BY <2>1, <2>2
<1> QED BY <1>3, <1>5 DEF BuffersInv

LEMMA FinishKeepsBuffers ==
    ASSUME Inductive, ReceiptsInv, BuffersInv, NEW b \in Batches, Finish(b)
    PROVE  Inductive' /\ BuffersInv'
<1> DEFINE used == {r \in batch[b].buffers :
                      \A c \in Accepted \ {b} : Pending(c) => r \notin batch[c].buffers}
<1>1. /\ native' = [r \in Records |->
                      IF r \notin used THEN native[r]
                      ELSE IF "oneTimeSubmit" \in usage[r] THEN "invalid" ELSE "executable"]
      /\ UNCHANGED <<poolVars, record, state, usage, faults, batch>>
      /\ b \in Accepted /\ Pending(b) /\ progress' = [progress EXCEPT ![b] = "done"]
  BY DEF Finish, Accepted, Pending
<1>2. \A r \in used : r \in Records /\ native[r] = "pending"
  BY <1>1 DEF BuffersInv, ReceiptsInv, BatchTypeOK
<1>3. \A r \in used : state[r] \in {"executable", "invalid"}
  BY <1>2 DEF Inductive, StateTypeOK, TrackingAgrees, CommandBufferState
<1>4. Inductive'
  <2>1. native' \in [Records -> NativeState \cup {"none", "gone"}]
    BY <1>1 DEF Inductive, StateTypeOK, NativeState, CommandBufferState
  <2>2. \A r \in Records : native'[r] # native[r] =>
          /\ state[r] \in {"executable", "invalid"}
          /\ \/ native'[r] \in {"executable", "pending"}
             \/ native'[r] = "invalid" /\ "oneTimeSubmit" \in usage[r]
    BY <1>1, <1>3
  <2> QED BY <1>1, <2>1, <2>2, QueuesKeep
<1>5. ASSUME NEW c \in Accepted', Pending(c)', NEW r \in batch'[c].buffers
      PROVE  native'[r] = "pending"
  <2>1. c \in Accepted \ {b} /\ Pending(c)
    BY <1>1, <1>5 DEF Accepted, Pending, ReceiptsInv, BatchTypeOK
  <2>2. r \notin used /\ r \in Records /\ native[r] = "pending"
    BY <1>1, <1>5, <2>1 DEF BuffersInv, ReceiptsInv, BatchTypeOK
  <2> QED BY <1>1, <2>2
<1> QED BY <1>4, <1>5 DEF BuffersInv

-----------------------------------------------------------------------------
(* The theorems                                                            *)

SubmissionInv == Inductive /\ ReceiptsInv /\ BuffersInv /\ CompletionsStayTrue /\ reported \subseteq Accepted

LEMMA SubmissionStarts == SubmissionInit => SubmissionInv
<1> SUFFICES ASSUME SubmissionInit PROVE SubmissionInv
  OBVIOUS
<1>1. Inductive
  BY Initially DEF SubmissionInit
<1>2. Accepted = {} /\ reported = {}
  BY DEF SubmissionInit, Accepted
<1>3. ReceiptsInv /\ BuffersInv
  BY <1>2 DEF SubmissionInit, ReceiptsInv, BatchTypeOK, FencesInv, TimelinesInv, BuffersInv
<1> QED BY <1>1, <1>2, <1>3 DEF SubmissionInv, CompletionsStayTrue

(* The commands and Vulkan agree, with batches in flight.                   *)
LEMMA BuffersKept ==
    Inductive /\ ReceiptsInv /\ BuffersInv /\ [Next]_vars => Inductive' /\ BuffersInv'
<1> SUFFICES ASSUME Inductive, ReceiptsInv, BuffersInv, [Next]_vars PROVE Inductive' /\ BuffersInv'
  OBVIOUS
<1>1. CASE LifecycleNext /\ UNCHANGED gpuVars
  <2>1. Inductive'
    BY <1>1, Preserved
  <2>2. \A r \in Records : native[r] = "pending" => native'[r] = "pending"
    BY <1>1, LifecycleKeepsPending
  <2> QED BY <1>1, <2>1, <2>2 DEF gpuVars, BuffersInv, Accepted, Pending, ReceiptsInv, BatchTypeOK
<1>2. ASSUME UNCHANGED <<poolVars, record, bufferVars>>, UNCHANGED faults \/ Fault,
             UNCHANGED <<batch, progress>>
      PROVE  Inductive' /\ BuffersInv'
  <2>1. faults' \in 0..MaxFaults
    BY <1>2, LifecycleAssumption DEF Fault, Inductive, StateTypeOK
  <2>2. Inductive'
    BY <1>2, <2>1, Refused
  <2> QED BY <1>2, <2>2 DEF BuffersInv, Accepted, Pending, bufferVars
<1>3. CASE \/ UNCHANGED vars
           \/ SubmitRejected
           \/ \E d \in Submittable, vs \in BufferLists : SubmitFails(d, vs)
           \/ \E b \in Batches, waiting \in BOOLEAN : Observe(b, waiting)
           \/ \E b \in Batches : InitialCompletion(b)
           \/ \E f \in Fences : ResetFence(f)
  BY <1>2, <1>3, RejectionsChangeNothing
  DEF vars, lifecycleVars, poolVars, bufferVars, gpuVars, SubmitFails, Observe,
      InitialCompletion, ResetFence
<1>4. CASE \E b \in Batches : Start(b) \/ EarlyStages(b)
  <2>1. PICK b \in Batches : Start(b) \/ EarlyStages(b)
    BY <1>4
  <2>2. UNCHANGED lifecycleVars /\ UNCHANGED batch
    BY <2>1 DEF Start, EarlyStages
  <2>3. Inductive'
    BY <2>2, Preserved
  <2>4. Accepted' = Accepted /\ \A c \in Accepted : Pending(c)' => Pending(c)
    BY <2>1 DEF Start, EarlyStages, Accepted, Pending, ReceiptsInv, BatchTypeOK
  <2> QED BY <2>2, <2>3, <2>4 DEF BuffersInv, lifecycleVars
<1> QED BY <1>1, <1>3, <1>4, SubmitKeepsBuffers, FinishKeepsBuffers DEF Next

(* What a kept Completion says was true when it was made, and a batch that  *)
(* has ended does not start again.                                          *)
LEMMA CompletionsKept ==
    ReceiptsInv /\ CompletionsStayTrue /\ reported \subseteq Accepted /\ [Next]_vars =>
      CompletionsStayTrue' /\ (reported \subseteq Accepted)'
<1> SUFFICES ASSUME ReceiptsInv, CompletionsStayTrue, reported \subseteq Accepted, [Next]_vars
             PROVE  CompletionsStayTrue' /\ (reported \subseteq Accepted)'
  OBVIOUS
<1>1. \A b \in Accepted : b \in Accepted' /\ (progress[b] = "done" => progress'[b] = "done")
  BY RejectionsChangeNothing
  DEF Next, vars, gpuVars, SubmitFails, Submit, Observe, InitialCompletion,
         ResetFence, Start, EarlyStages, Finish, Accepted, ReceiptsInv, BatchTypeOK
<1>2. ASSUME NEW b \in reported', b \notin reported
      PROVE  b \in Accepted /\ progress[b] = "done"
  <2>1. PICK c \in Batches, waiting \in BOOLEAN : Observe(c, waiting)
    BY <1>2, RejectionsChangeNothing
    DEF Next, vars, gpuVars, SubmitFails, Submit, InitialCompletion,
         ResetFence, Start, EarlyStages, Finish
  <2>2. c \in Accepted \ void
    BY <2>1 DEF Observe
  <2>3. b = c /\ Outcome(Observation(c, waiting)) = "completed"
    BY <1>2, <2>1 DEF Observe, Report
  <2>4. Signalled(c)
    BY <2>3 DEF Outcome, Observation
  <2> QED BY <2>2, <2>3, <2>4, ReceiptsFollow DEF ReceiptFollowsItsBatch
<1> QED BY <1>1, <1>2 DEF CompletionsStayTrue

LEMMA SubmissionKeeps == SubmissionInv /\ [Next]_vars => SubmissionInv'
BY ReceiptsKept, BuffersKept, CompletionsKept DEF SubmissionInv

LEMMA SubmissionInvariance == Spec => []SubmissionInv
BY SubmissionStarts, SubmissionKeeps, PTL DEF Spec

(* A receipt says completed exactly when its batch has executed, for any    *)
(* number of queues, shared timelines, early signals and reused fences      *)
(* (submit, SubmissionReceipt::poll and wait).                              *)
THEOREM ReceiptsTellTheTruth == Spec => []ReceiptFollowsItsBatch
<1>1. SubmissionInv => ReceiptFollowsItsBatch
  BY ReceiptsFollow DEF SubmissionInv
<1> QED BY <1>1, SubmissionInvariance, PTL

(* A Completion that says completed is never overtaken by later work on its *)
(* fence or timeline (Completion::observeNative).                           *)
THEOREM KeptCompletionsAreTrue == Spec => []CompletionsStayTrue
<1>1. SubmissionInv => CompletionsStayTrue
  BY DEF SubmissionInv
<1> QED BY <1>1, SubmissionInvariance, PTL

(* What pools, records and views guarantee stays true with batches of their *)
(* buffers in flight on any number of queues: Vulkan's states change behind *)
(* the records' backs, and tracking still agrees.                           *)
THEOREM TrackingSurvivesTheGpu ==
    Spec => [](TrackingAgrees /\ EveryAllocationOwned /\ ViewsAreExclusive)
<1>1. SubmissionInv => TrackingAgrees /\ EveryAllocationOwned /\ ViewsAreExclusive
  BY DEF SubmissionInv, Inductive
<1> QED BY <1>1, SubmissionInvariance, PTL

(* vkQueueSubmit2 only ever sees buffers it may: recorded to their end, for *)
(* the queue's family, unprotected, and not in use unless simultaneously.   *)
THEOREM SubmitsExecutableBuffers == Spec => SubmittedBuffersAreExecutable
<1>1. ASSUME SubmissionInv, [Next]_vars, NEW b \in Batches,
             progress[b] = "none", progress'[b] = "queued", NEW r \in batch'[b].buffers
      PROVE  /\ native[r] = "executable" \/ (native[r] = "pending" /\ usage[r] = {"simultaneousUse"})
             /\ description[Owner(r)].family = QueueOf[QueueOfBatch(b)'].family
             /\ "protected" \notin description[Owner(r)].flags
  <2> USE DEF SubmissionInv, ReceiptsInv, BatchTypeOK
  <2>1. PICK d \in Submittable, vs \in BufferLists : Submit(d, vs)
    BY <1>1, RejectionsChangeNothing
    DEF Next, vars, gpuVars, SubmitFails, Observe, InitialCompletion,
         ResetFence, Start, EarlyStages, Finish
  <2>2. batch'[b] = [description |-> d, buffers |-> {record[v] : v \in Range(vs)}]
    BY <1>1, <2>1 DEF Submit
  <2>3. PICK v \in Range(vs) : r = record[v]
    BY <1>1, <2>2
  <2> QED BY <1>1, <2>1, <2>2, <2>3, BuffersPassed DEF Submit, QueueOfBatch
<1>2. SubmissionInv /\ [Next]_vars =>
        [\A b \in Batches : progress[b] = "none" /\ progress'[b] = "queued" =>
           \A r \in batch'[b].buffers :
             /\ native[r] = "executable" \/ (native[r] = "pending" /\ usage[r] = {"simultaneousUse"})
             /\ description[Owner(r)].family = QueueOf[QueueOfBatch(b)'].family
             /\ "protected" \notin description[Owner(r)].flags]_vars
  BY <1>1
<1> QED BY <1>2, SubmissionInvariance, PTL DEF Spec, SubmittedBuffersAreExecutable
=============================================================================

-------------------------- MODULE RetirementProofs --------------------------
(***************************************************************************)
(* Proofs about Retirement, for any owners, submissions, devices, receipt  *)
(* lists and fault bound: its invariants, and that it implements           *)
(* RetirementContract.                                                     *)
(***************************************************************************)
EXTENDS Retirement, SequenceTheorems, TLAPS

(* An entry is never made without a receipt (missing_completion).          *)
EntriesCovered == \A k \in DOMAIN entries : entries[k].receipts # <<>>

(* The inductive invariant.                                                *)
IInv ==
    /\ TypeOK
    /\ EntriesCovered
    /\ HeldExactlyOnce
    /\ OneDevice
    /\ LossIsNative
    /\ CollectSound
    /\ NoEarlyDestruction
    /\ FailFast

-----------------------------------------------------------------------------
(* What erasing the entry at k leaves.                                     *)
LEMMA EraseLemma ==
    ASSUME entries \in Seq(Entry), NEW k \in 1..Len(entries)
    PROVE  /\ EraseEntry(k) \in Seq(Entry)
           /\ Len(EraseEntry(k)) = Len(entries) - 1
           /\ \A m \in 1..(Len(entries) - 1) :
                EraseEntry(k)[m] = IF m < k THEN entries[m] ELSE entries[m + 1]
<1> DEFINE n == Len(entries) - 1
<1>1. n \in Nat
  OBVIOUS
<1>2. \A m \in 1..n : m \in 1..Len(entries) /\ (m + 1) \in 1..Len(entries)
  OBVIOUS
<1>3. \A m \in 1..Len(entries) : entries[m] \in Entry
  OBVIOUS
<1>4. EraseEntry(k) \in [1..n -> Entry]
  BY <1>2, <1>3 DEF EraseEntry
<1>5. EraseEntry(k) \in Seq(Entry)
  BY <1>1, <1>4, IsASeq
<1>6. Len(EraseEntry(k)) = n
  BY <1>1, <1>4, <1>5, LenProperties
<1>7. QED
  BY <1>5, <1>6 DEF EraseEntry

(* What an entry is.                                                       *)
LEMMA EntryTypes ==
    ASSUME TypeOK
    PROVE  /\ DOMAIN entries = 1..Len(entries) /\ Len(entries) \in Nat
           /\ \A k \in DOMAIN entries :
                /\ entries[k] \in Entry
                /\ entries[k].owner \in Resources
                /\ entries[k].receipts \in Seq(Submissions)
                /\ UsesOf(entries[k].receipts) \subseteq Submissions
<1>1. entries \in Seq(Entry)
  BY DEF TypeOK
<1>2. DOMAIN entries = 1..Len(entries) /\ Len(entries) \in Nat
  BY <1>1, LenProperties
<1>3. \A k \in DOMAIN entries : entries[k] \in Entry
  BY <1>1, <1>2, ElementOfSeq
<1>4. \A k \in DOMAIN entries :
         entries[k].owner \in Resources /\ entries[k].receipts \in Seq(Submissions)
  BY <1>3 DEF Entry
<1>5. \A q \in Seq(Submissions) : UsesOf(q) \subseteq Submissions
  BY DEF UsesOf
<1>6. QED
  BY <1>2, <1>3, <1>4, <1>5

THEOREM InitInvariant == Init => IInv
<1> SUFFICES ASSUME Init PROVE IInv
  OBVIOUS
<1> USE DEF Init
<1>1. TypeOK
  <2>1. entries \in Seq(Entry) /\ ready \in Seq(BOOLEAN)
    BY EmptySeq
  <2>2. faults \in 0..MaxFaults
    BY RetirementAssumption
  <2>3. QED
    BY <2>1, <2>2 DEF TypeOK, Successes
<1>2. EntriesCovered /\ HeldExactlyOnce /\ OneDevice
  BY DEF EntriesCovered, HeldExactlyOnce, OneDevice, Held
<1>3. LossIsNative /\ CollectSound /\ NoEarlyDestruction /\ FailFast
  BY DEF LossIsNative, CollectSound, NoEarlyDestruction, FailFast, Held
<1>4. QED
  BY <1>1, <1>2, <1>3 DEF IInv

-----------------------------------------------------------------------------
(* Calls that are refused, and moves of a Device wrapper, change nothing    *)
(* the invariant speaks of but the reply and the fault count.               *)
Quiet ==
    UNCHANGED <<queueVars, queue, callVars, ownerVars, gpuVars>>

LEMMA QuietStep ==
    ASSUME IInv, Quiet, TypeOK' PROVE IInv'
<1> USE DEF IInv, Quiet, queueVars, callVars, ownerVars, gpuVars
<1>1. EntriesCovered' /\ HeldExactlyOnce'
  BY DEF EntriesCovered, HeldExactlyOnce, Held
<1>2. OneDevice' /\ LossIsNative' /\ FailFast'
  BY DEF OneDevice, LossIsNative, FailFast, Held
<1>3. CollectSound' /\ NoEarlyDestruction'
  BY DEF CollectSound, NoEarlyDestruction, OutOfTheWay
<1>4. QED
  BY <1>1, <1>2, <1>3

LEMMA RejectionReplies ==
    ASSUME NEW r \in Resources, NEW uses \in UseLists
    PROVE  RetireError(r, uses) \in Rejections \cup {"none"}
BY DEF RetireError, UsesError, Rejections

LEMMA QuietCalls ==
    ASSUME IInv,
           \/ \E r \in Resources, uses \in UseLists :
                RetireRejected(r, uses) \/ RetireOutOfMemory(r, uses)
           \/ CollectRefused \/ CollectOutOfMemory \/ RequireEmpty
           \/ \E d \in Devices : ReclaimRejected(d) \/ MoveDevice(d)
    PROVE  IInv'
<1> USE DEF queueVars, callVars, ownerVars, gpuVars
<1>1. Quiet
  BY DEF Quiet, RetireRejected, RetireOutOfMemory, CollectRefused, CollectOutOfMemory,
         RequireEmpty, ReclaimRejected, MoveDevice
<1>2. reply' \in Rejections \cup PollFailures \cup Successes
  BY RejectionReplies DEF IInv, TypeOK, RetireRejected, RetireOutOfMemory, CollectRefused,
     CollectOutOfMemory, RequireEmpty, ReclaimRejected, ReclaimError, MoveDevice,
     Rejections, Successes
<1>3. faults' \in 0..MaxFaults
  BY RetirementAssumption DEF IInv, TypeOK, RetireRejected, RetireOutOfMemory,
     CollectRefused, CollectOutOfMemory, RequireEmpty, ReclaimRejected, MoveDevice
<1>4. inPlace' \in [Devices -> BOOLEAN]
  BY DEF IInv, TypeOK, RetireRejected, RetireOutOfMemory, CollectRefused,
     CollectOutOfMemory, RequireEmpty, ReclaimRejected, MoveDevice
<1>5. TypeOK'
  BY <1>1, <1>2, <1>3, <1>4 DEF IInv, TypeOK, Quiet
<1>6. QED
  BY <1>1, <1>5, QuietStep

(* An accepted list is not empty, all on one device, the queue's if it has  *)
(* one already.                                                             *)
LEMMA AcceptedUses ==
    ASSUME IInv, NEW r \in Resources, NEW uses \in UseLists, RetireError(r, uses) = "none"
    PROVE  /\ where[r] = "caller" /\ ~lost /\ uses \in Seq(Submissions) /\ uses # <<>>
           /\ 1 \in DOMAIN uses /\ uses[1] \in Submissions /\ DeviceOf[uses[1]] \in Devices
           /\ \A k \in DOMAIN uses : DeviceOf[uses[k]] = DeviceOf[uses[1]]
           /\ device # NoDevice => DeviceOf[uses[1]] = device
<1>1. where[r] = "caller" /\ ~lost /\ uses # <<>> /\ UsesError(uses) = "none"
  BY DEF RetireError
<1>2. uses \in Seq(Submissions) /\ 1 \in DOMAIN uses /\ uses[1] \in Submissions
  BY <1>1, RetirementAssumption, EmptySeq, LenProperties
<1>3. Mismatched(uses) = {}
  BY <1>1 DEF UsesError
<1>4. QED
  BY <1>1, <1>2, <1>3, RetirementAssumption DEF Mismatched

LEMMA RetireStep ==
    ASSUME IInv, NEW r \in Resources, NEW uses \in UseLists, Retire(r, uses)
    PROVE  IInv'
<1> DEFINE new == [owner |-> r, receipts |-> uses]
           d == DeviceOf[uses[1]]
<1> USE DEF queueVars, callVars, ownerVars, gpuVars
<1>1. /\ where[r] = "caller" /\ ~lost /\ uses \in Seq(Submissions) /\ uses # <<>>
      /\ d \in Devices /\ \A k \in DOMAIN uses : DeviceOf[uses[k]] = d
      /\ device # NoDevice => d = device
  BY AcceptedUses DEF Retire
<1>2. /\ entries \in Seq(Entry) /\ new \in Entry /\ entries' = Append(entries, new)
      /\ UsesOf(uses) \in SUBSET Submissions
  BY <1>1 DEF Retire, IInv, TypeOK, Entry, UsesOf
<1>3. /\ entries' \in Seq(Entry) /\ Len(entries') = Len(entries) + 1
      /\ DOMAIN entries' = 1..(Len(entries) + 1) /\ DOMAIN entries = 1..Len(entries)
      /\ \A k \in DOMAIN entries : entries'[k] = entries[k]
      /\ entries'[Len(entries) + 1] = new
  BY <1>2, AppendProperties, LenProperties
<1>4. TypeOK'
  BY <1>1, <1>2, <1>3 DEF IInv, TypeOK, Retire, Successes
<1>5. EntriesCovered'
  BY <1>1, <1>3 DEF IInv, EntriesCovered
<1>6. HeldExactlyOnce'
  <2>1. /\ where' = [where EXCEPT ![r] = "queue"]
        /\ declared' = [declared EXCEPT ![r] = UsesOf(uses)]
    BY DEF Retire
  <2>2. \A k \in DOMAIN entries : entries[k].owner # r /\ entries[k].owner \in Resources
    BY <1>1, EntryTypes DEF IInv, HeldExactlyOnce
  <2>3. \A k \in DOMAIN entries' :
          /\ where'[entries'[k].owner] = "queue"
          /\ UsesOf(entries'[k].receipts) = declared'[entries'[k].owner]
    <3> SUFFICES ASSUME NEW k \in DOMAIN entries'
                 PROVE  /\ where'[entries'[k].owner] = "queue"
                        /\ UsesOf(entries'[k].receipts) = declared'[entries'[k].owner]
      OBVIOUS
    <3>1. CASE k = Len(entries) + 1
      BY <1>3, <2>1, <3>1 DEF IInv, TypeOK
    <3>2. CASE k \in DOMAIN entries
      BY <1>3, <2>1, <2>2, <3>2 DEF IInv, TypeOK, HeldExactlyOnce
    <3>3. QED
      BY <1>3, <3>1, <3>2
  <2>4. \A k, m \in DOMAIN entries' : entries'[m].owner = entries'[k].owner => m = k
    BY <1>3, <2>2 DEF IInv, HeldExactlyOnce
  <2>5. \A q \in Held' : \E k \in DOMAIN entries' : entries'[k].owner = q
    <3> SUFFICES ASSUME NEW q \in Held'
                 PROVE  \E k \in DOMAIN entries' : entries'[k].owner = q
      OBVIOUS
    <3>1. CASE q = r
      BY <1>3, <3>1, EntryTypes DEF IInv
    <3>2. CASE q # r
      <4>1. q \in Held
        BY <2>1, <3>2 DEF Held, IInv, TypeOK
      <4>2. PICK k \in DOMAIN entries : entries[k].owner = q
        BY <4>1 DEF IInv, HeldExactlyOnce
      <4>3. QED
        BY <1>3, <4>2
    <3>3. QED
      BY <3>1, <3>2
  <2>6. QED
    BY <2>3, <2>4, <2>5 DEF HeldExactlyOnce
<1>7. OneDevice'
  <2>1. device' = d
    BY DEF Retire
  <2>2. \A s \in UsesOf(uses) : DeviceOf[s] = d
    BY <1>1 DEF UsesOf
  <2>3. \A k \in DOMAIN entries : \A s \in UsesOf(entries[k].receipts) : DeviceOf[s] = d
    <3> SUFFICES ASSUME NEW k \in DOMAIN entries, NEW s \in UsesOf(entries[k].receipts)
                 PROVE  DeviceOf[s] = d
      OBVIOUS
    <3>1. DeviceOf[s] = device
      BY DEF IInv, OneDevice
    <3>2. s \in Submissions
      BY EntryTypes DEF IInv
    <3>3. QED
      BY <1>1, <3>1, <3>2, RetirementAssumption
  <2>4. entries' # <<>>
    BY <1>3
  <2>5. QED
    BY <1>3, <2>1, <2>2, <2>3, <2>4 DEF OneDevice, UsesOf
<1>8. LossIsNative' /\ FailFast' /\ CollectSound' /\ NoEarlyDestruction'
  <2>1. LossIsNative'
    BY <1>1 DEF LossIsNative, Retire
  <2>2. FailFast'
    BY DEF FailFast, Retire, Callable
  <2>3. CollectSound'
    BY <1>1 DEF IInv, CollectSound, Retire, Callable
  <2>4. NoEarlyDestruction'
    BY <1>1 DEF IInv, TypeOK, NoEarlyDestruction, OutOfTheWay, Retire
  <2>5. QED
    BY <2>1, <2>2, <2>3, <2>4
<1>9. QED
  BY <1>4, <1>5, <1>6, <1>7, <1>8 DEF IInv

-----------------------------------------------------------------------------
(* collect(): the polling phase                                            *)

LEMMA CollectBeginStep == ASSUME IInv, CollectBegin PROVE IInv'
<1> USE DEF queueVars, ownerVars, gpuVars, CollectBegin, Callable
<1>1. TypeOK'
  BY EmptySeq DEF IInv, TypeOK, Held
<1>2. EntriesCovered' /\ HeldExactlyOnce'
  BY DEF IInv, EntriesCovered, HeldExactlyOnce, Held
<1>3. OneDevice' /\ LossIsNative' /\ FailFast'
  BY DEF IInv, OneDevice, LossIsNative, FailFast, Held
<1>4. NoEarlyDestruction'
  BY DEF IInv, NoEarlyDestruction, OutOfTheWay
<1>5. CollectSound'
  BY EntryTypes, EmptySeq, LenProperties DEF IInv, CollectSound, EntriesCovered
<1>6. QED
  BY <1>1, <1>2, <1>3, <1>4, <1>5 DEF IInv

(* A poll that answers "completed" speaks of work that is out of the way,   *)
(* one that answers with the loss, of a device that is lost.                *)
LEMMA PollLemma ==
    ASSUME IInv, pc = "polling", at <= Len(entries), NEW o \in Poll(Polled)
    PROVE  /\ at \in DOMAIN entries /\ Polled \in Submissions
           /\ Polled \in UsesOf(entries[at].receipts)
           /\ term \in DOMAIN entries[at].receipts
           /\ DeviceOf[Polled] = device
           /\ o = "completed" => OutOfTheWay(Polled)
           /\ o = "native_device_lost" => device \in deviceLost
           /\ o = "native_error" => faults < MaxFaults
           /\ o \in PollFailures \cup {"completed", "pending"}
<1>1. at \in DOMAIN entries
  BY EntryTypes DEF IInv, CollectSound
<1>2. entries[at].receipts \in Seq(Submissions) /\ term \in 1..Len(entries[at].receipts)
  BY <1>1, EntryTypes DEF IInv, CollectSound, TypeOK
<1>3. /\ term \in DOMAIN entries[at].receipts /\ Polled \in Submissions
      /\ Polled \in UsesOf(entries[at].receipts)
  BY <1>2, LenProperties DEF Polled, UsesOf
<1>4. DeviceOf[Polled] = device
  BY <1>1, <1>3 DEF IInv, OneDevice
<1>5. work[Polled] \in {"pending", "completed"}
  BY <1>3 DEF IInv, TypeOK
<1>6. QED
  BY <1>1, <1>3, <1>4, <1>5 DEF Poll, NativeStatus, OutOfTheWay, PollFailures

LEMMA PollAnsweredStep ==
    ASSUME IInv, CollectPoll, NEW o \in Poll(Polled), o \notin PollFailures, PollAnswered(o)
    PROVE  IInv'
<1> USE DEF queueVars, ownerVars, gpuVars, CollectPoll
<1> DEFINE receipts == entries[at].receipts
<1>1. UNCHANGED <<queueVars, pc, queue, heldAtCall, reply, faults, ownerVars, gpuVars, inPlace>>
  BY DEF PollAnswered
<1>2. /\ at \in DOMAIN entries /\ term \in DOMAIN receipts
      /\ o = "completed" => OutOfTheWay(Polled)
      /\ pc = "polling" /\ at <= Len(entries)
  BY PollLemma
<1>3. /\ entries \in Seq(Entry) /\ ready \in Seq(BOOLEAN) /\ Conjoin(o) \in BOOLEAN
      /\ at \in Nat /\ term \in Nat /\ receipts \in Seq(Submissions)
      /\ Len(ready) = at - 1 /\ term <= Len(receipts) /\ Len(receipts) \in Nat
  BY <1>2, EntryTypes, LenProperties DEF IInv, TypeOK, Conjoin, CollectSound
<1>4. all => \A m \in 1..(term - 1) : OutOfTheWay(receipts[m])
  BY <1>2 DEF IInv, CollectSound
<1>5. Conjoin(o) => \A m \in 1..term : OutOfTheWay(receipts[m])
  BY <1>2, <1>3, <1>4 DEF Conjoin, Polled
<1>6. EntriesCovered' /\ HeldExactlyOnce'
  BY <1>1 DEF IInv, EntriesCovered, HeldExactlyOnce, Held
<1>7. OneDevice' /\ LossIsNative' /\ FailFast'
  BY <1>1 DEF IInv, OneDevice, LossIsNative, FailFast, Held
<1>8. NoEarlyDestruction'
  BY <1>1 DEF IInv, NoEarlyDestruction, OutOfTheWay
<1>9. CASE term < Len(receipts)
  <2>1. term' = term + 1 /\ all' = Conjoin(o) /\ at' = at /\ ready' = ready
    BY <1>9 DEF PollAnswered
  <2>2. TypeOK'
    BY <1>1, <1>3, <2>1 DEF IInv, TypeOK
  <2>3. CollectSound'
    BY <1>1, <1>2, <1>3, <1>5, <1>9, <2>1 DEF IInv, CollectSound, OutOfTheWay
  <2>4. QED
    BY <1>6, <1>7, <1>8, <2>2, <2>3 DEF IInv
<1>10. CASE ~(term < Len(receipts))
  <2>1. ready' = Append(ready, Conjoin(o)) /\ at' = at + 1 /\ term' = 1 /\ all' = TRUE
    BY <1>10 DEF PollAnswered
  <2>2. /\ ready' \in Seq(BOOLEAN) /\ Len(ready') = at
        /\ \A k \in 1..(at - 1) : ready'[k] = ready[k]
        /\ ready'[at] = Conjoin(o) /\ DOMAIN ready' = 1..at
    BY <1>3, <2>1, AppendProperties, LenProperties
  <2>3. TypeOK'
    BY <1>1, <1>3, <2>1, <2>2 DEF IInv, TypeOK
  <2>4. Conjoin(o) => \A s \in UsesOf(receipts) : OutOfTheWay(s)
    BY <1>3, <1>5, <1>10, LenProperties DEF UsesOf
  <2>5. \A k \in DOMAIN ready' :
          ready'[k] => \A s \in UsesOf(entries[k].receipts) : OutOfTheWay(s)
    BY <1>2, <1>3, <2>2, <2>4, LenProperties DEF IInv, CollectSound
  <2>6. at + 1 <= Len(entries) => 1 <= Len(entries[at + 1].receipts)
    BY <1>3, EntryTypes, EmptySeq, LenProperties DEF IInv, EntriesCovered
  <2>7. CollectSound'
    <3>1. at' \in 1..(Len(entries') + 1) /\ Len(ready') = at' - 1 /\ term' > 0
      BY <1>1, <1>2, <1>3, <2>1, <2>2, EntryTypes DEF IInv
    <3>2. at' <= Len(entries') => term' <= Len(entries'[at'].receipts)
      BY <1>1, <2>1, <2>6
    <3>3. \A m \in 1..(term' - 1) : FALSE
      BY <2>1
    <3>4. \A k \in DOMAIN ready' :
            ready'[k] => \A s \in UsesOf(entries'[k].receipts) : OutOfTheWay(s)'
      BY <1>1, <2>5 DEF OutOfTheWay
    <3>5. pc' = "polling" /\ ~lost' /\ queue' = "live"
      BY <1>1, <1>2 DEF IInv, CollectSound
    <3>6. QED
      BY <3>1, <3>2, <3>3, <3>4, <3>5 DEF CollectSound
  <2>8. QED
    BY <1>6, <1>7, <1>8, <2>3, <2>7 DEF IInv
<1>11. QED
  BY <1>9, <1>10

LEMMA PollFailedStep ==
    ASSUME IInv, CollectPoll, NEW o \in Poll(Polled), o \in PollFailures, PollFailed(o)
    PROVE  IInv'
<1> USE DEF ownerVars, gpuVars, CollectPoll
<1>1. /\ UNCHANGED <<entries, device, ownerVars, queue, gpuVars, inPlace>>
      /\ pc' = "idle" /\ at' = 0 /\ term' = 0 /\ all' = TRUE /\ ready' = <<>>
      /\ heldAtCall' = {} /\ reply' = o /\ lost' = (lost \/ Latches(o))
      /\ faults' = faults + (IF o = "native_error" THEN 1 ELSE 0)
  BY DEF PollFailed, CallEnds
<1>2. /\ at \in DOMAIN entries
      /\ o = "native_error" => faults < MaxFaults
      /\ o = "native_device_lost" => device \in deviceLost
  BY PollLemma
<1>3. entries # <<>>
  <2>1. 1 <= Len(entries)
    BY <1>2, EntryTypes DEF IInv
  <2>2. QED
    BY <2>1
<1>4. TypeOK'
  <2>1. faults' \in 0..MaxFaults
    <3>1. faults \in 0..MaxFaults /\ MaxFaults \in Nat
      BY RetirementAssumption DEF IInv, TypeOK
    <3>2. CASE o = "native_error"
      BY <1>1, <1>2, <3>1, <3>2
    <3>3. CASE o # "native_error"
      BY <1>1, <3>1, <3>3
    <3>4. QED
      BY <3>2, <3>3
  <2>2. lost' \in BOOLEAN /\ ready' \in Seq(BOOLEAN)
    BY <1>1, EmptySeq DEF IInv, TypeOK, Latches
  <2>3. QED
    BY <1>1, <2>1, <2>2 DEF IInv, TypeOK
<1>5. EntriesCovered' /\ HeldExactlyOnce'
  BY <1>1 DEF IInv, EntriesCovered, HeldExactlyOnce, Held
<1>6. OneDevice' /\ FailFast'
  BY <1>1, <1>3 DEF IInv, OneDevice, FailFast, Held
<1>7. LossIsNative'
  BY <1>1, <1>2 DEF IInv, LossIsNative, Latches
<1>8. NoEarlyDestruction'
  BY <1>1 DEF IInv, NoEarlyDestruction, OutOfTheWay
<1>9. CollectSound'
  BY <1>1 DEF CollectSound
<1>10. QED
  BY <1>4, <1>5, <1>6, <1>7, <1>8, <1>9 DEF IInv

LEMMA CollectPolledStep == ASSUME IInv, CollectPolled PROVE IInv'
<1> USE DEF queueVars, ownerVars, gpuVars, CollectPolled, EraseStart
<1>1. EntriesCovered' /\ HeldExactlyOnce'
  BY DEF IInv, EntriesCovered, HeldExactlyOnce, Held
<1>2. OneDevice' /\ LossIsNative' /\ FailFast'
  BY DEF IInv, OneDevice, LossIsNative, FailFast, Held
<1>3. NoEarlyDestruction'
  BY DEF IInv, NoEarlyDestruction, OutOfTheWay
<1>4. TypeOK'
  BY EntryTypes DEF IInv, TypeOK
<1>5. CollectSound'
  BY EntryTypes DEF IInv, TypeOK, CollectSound, OutOfTheWay
<1>6. QED
  BY <1>1, <1>2, <1>3, <1>4, <1>5 DEF IInv

-----------------------------------------------------------------------------
(* collect(): the erase phase                                              *)

LEMMA CollectReleaseStep == ASSUME IInv, CollectRelease PROVE IInv'
<1> USE DEF queueVars, ownerVars, gpuVars, CollectRelease
<1>1. /\ pc = "releasing" /\ at \in DOMAIN entries /\ at \in 1..Len(entries)
      /\ at \in DOMAIN ready /\ entries \in Seq(Entry) /\ at \in Nat /\ at' \in Nat
      /\ Len(entries) \in Nat /\ DOMAIN entries = 1..Len(entries) /\ ready \in Seq(BOOLEAN)
      /\ DOMAIN ready = 1..Len(ready) /\ Len(ready) \in Nat
  BY EntryTypes, LenProperties DEF IInv, TypeOK, CollectSound
<1>2. CASE ~ready[at]
  <2>1. UNCHANGED <<entries, where>>
    BY <1>2
  <2>2. TypeOK'
    BY <1>1, <2>1 DEF IInv, TypeOK
  <2>3. EntriesCovered' /\ HeldExactlyOnce'
    BY <2>1 DEF IInv, EntriesCovered, HeldExactlyOnce, Held
  <2>4. OneDevice' /\ LossIsNative' /\ FailFast'
    BY <2>1 DEF IInv, OneDevice, LossIsNative, FailFast, Held
  <2>5. NoEarlyDestruction'
    BY <2>1 DEF IInv, NoEarlyDestruction, OutOfTheWay
  <2>6. CollectSound'
    BY <1>1, <2>1 DEF IInv, CollectSound, OutOfTheWay
  <2>7. QED
    BY <2>2, <2>3, <2>4, <2>5, <2>6 DEF IInv
<1>3. CASE ready[at]
  <2> DEFINE q == entries[at].owner
             shift(m) == IF m < at THEN m ELSE m + 1
  <2>1. entries' = EraseEntry(at) /\ where' = [where EXCEPT ![q] = "destroyed"]
    BY <1>3
  <2>2. /\ entries' \in Seq(Entry) /\ Len(entries') = Len(entries) - 1
        /\ DOMAIN entries' = 1..(Len(entries) - 1)
        /\ \A m \in DOMAIN entries' : /\ shift(m) \in DOMAIN entries /\ shift(m) # at
                                      /\ entries'[m] = entries[shift(m)]
    <3>1. /\ entries' \in Seq(Entry) /\ Len(entries') = Len(entries) - 1
          /\ \A m \in 1..(Len(entries) - 1) :
               entries'[m] = IF m < at THEN entries[m] ELSE entries[m + 1]
      BY <1>1, <2>1, EraseLemma
    <3>2. DOMAIN entries' = 1..(Len(entries) - 1)
      BY <3>1, LenProperties
    <3>3. \A m \in 1..(Len(entries) - 1) : shift(m) \in DOMAIN entries /\ shift(m) # at
      BY <1>1
    <3>4. QED
      BY <3>1, <3>2, <3>3
  <2>3. q \in Resources /\ UsesOf(entries[at].receipts) = declared[q]
    BY <1>1, EntryTypes DEF IInv, HeldExactlyOnce
  <2>4. TypeOK'
    BY <1>1, <2>1, <2>2 DEF IInv, TypeOK
  <2>5. EntriesCovered'
    BY <2>2 DEF IInv, EntriesCovered
  <2>6. OneDevice'
    BY <1>1, <2>2 DEF IInv, OneDevice
  <2>7. HeldExactlyOnce'
    <3>1. \A m \in DOMAIN entries' :
            entries'[m].owner # q /\ entries'[m].owner \in Resources
      BY <1>1, <2>2, EntryTypes DEF IInv, HeldExactlyOnce
    <3>2. \A m \in DOMAIN entries' :
            /\ where'[entries'[m].owner] = "queue"
            /\ UsesOf(entries'[m].receipts) = declared'[entries'[m].owner]
      BY <2>1, <2>2, <3>1 DEF IInv, TypeOK, HeldExactlyOnce
    <3>3. \A m, k \in DOMAIN entries' : entries'[m].owner = entries'[k].owner => m = k
      <4> SUFFICES ASSUME NEW m \in DOMAIN entries', NEW k \in DOMAIN entries',
                          entries'[m].owner = entries'[k].owner
                   PROVE  m = k
        OBVIOUS
      <4>1. shift(m) = shift(k)
        BY <2>2 DEF IInv, HeldExactlyOnce
      <4>2. QED
        BY <1>1, <2>2, <4>1
    <3>4. \A r \in Held' : \E m \in DOMAIN entries' : entries'[m].owner = r
      <4> SUFFICES ASSUME NEW r \in Held' PROVE \E m \in DOMAIN entries' : entries'[m].owner = r
        OBVIOUS
      <4>1. r \in Held /\ r # q
        BY <2>1, <2>3 DEF Held, IInv, TypeOK
      <4>2. PICK k \in DOMAIN entries : entries[k].owner = r
        BY <4>1 DEF IInv, HeldExactlyOnce
      <4>3. k # at
        BY <4>1, <4>2
      <4>4. CASE k < at
        <5>1. k \in DOMAIN entries' /\ shift(k) = k
          BY <1>1, <2>2, <4>4
        <5>2. QED
          BY <2>2, <4>2, <5>1
      <4>5. CASE k > at
        <5>1. (k - 1) \in DOMAIN entries' /\ shift(k - 1) = k
          BY <1>1, <2>2, <4>5
        <5>2. QED
          BY <2>2, <4>2, <5>1
      <4>6. QED
        BY <1>1, <4>3, <4>4, <4>5
    <3>5. QED
      BY <3>2, <3>3, <3>4 DEF HeldExactlyOnce
  <2>8. \A s \in UsesOf(entries[at].receipts) : OutOfTheWay(s)
    BY <1>1, <1>3 DEF IInv, CollectSound
  <2>9. NoEarlyDestruction'
    BY <2>1, <2>3, <2>8 DEF IInv, TypeOK, NoEarlyDestruction, OutOfTheWay
  <2>10. ~lost /\ queue = "live"
    BY <1>1 DEF IInv, CollectSound
  <2>11. LossIsNative' /\ FailFast'
    BY <2>10 DEF LossIsNative, FailFast
  <2>12. CollectSound'
    <3>1. at' = at - 1 /\ at' <= Len(entries') /\ at' <= Len(ready') /\ pc' = "releasing"
      BY <1>1, <2>2
    <3>2. \A k \in DOMAIN ready' : k <= at' => entries'[k] = entries[k]
      BY <1>1, <2>2, <3>1
    <3>3. \A k \in DOMAIN ready' :
            ready'[k] /\ k <= at' =>
                \A s \in UsesOf(entries'[k].receipts) : OutOfTheWay(s)'
      BY <1>1, <3>1, <3>2 DEF IInv, CollectSound, OutOfTheWay
    <3>4. QED
      BY <2>10, <3>1, <3>3 DEF CollectSound
  <2>13. QED
    BY <2>4, <2>5, <2>6, <2>7, <2>9, <2>11, <2>12 DEF IInv
<1>4. QED
  BY <1>2, <1>3

LEMMA CollectReturnsStep == ASSUME IInv, CollectReturns PROVE IInv'
<1> USE DEF ownerVars, gpuVars, CollectReturns, CallEnds
<1>1. TypeOK'
  BY EmptySeq DEF IInv, TypeOK, DeviceAfterRelease, Successes
<1>2. EntriesCovered' /\ HeldExactlyOnce'
  BY DEF IInv, EntriesCovered, HeldExactlyOnce, Held
<1>3. OneDevice'
  BY EntryTypes DEF IInv, OneDevice, DeviceAfterRelease
<1>4. LossIsNative' /\ FailFast' /\ CollectSound'
  BY DEF IInv, LossIsNative, FailFast, CollectSound, Held
<1>5. NoEarlyDestruction'
  BY DEF IInv, NoEarlyDestruction, OutOfTheWay
<1>6. QED
  BY <1>1, <1>2, <1>3, <1>4, <1>5 DEF IInv

-----------------------------------------------------------------------------
(* Teardown, destruction, the GPU                                          *)

\* The owners the entries hold are those moved in.
LEMMA EntryOwners ==
    ASSUME IInv, NEW r \in Resources
    PROVE  (\E k \in DOMAIN entries : entries[k].owner = r) <=> where[r] = "queue"
BY DEF IInv, HeldExactlyOnce, Held

(* On the lost device every declared use of a held owner is out of the way. *)
LEMMA LostDeviceFreesAll ==
    ASSUME IInv, lost, NEW r \in Resources, where[r] = "queue", NEW s \in declared[r]
    PROVE  OutOfTheWay(s)
<1>1. PICK k \in DOMAIN entries : entries[k].owner = r
  BY EntryOwners
<1>2. s \in UsesOf(entries[k].receipts)
  BY <1>1 DEF IInv, HeldExactlyOnce
<1>3. DeviceOf[s] = device
  BY <1>2 DEF IInv, OneDevice
<1>4. 1 <= Len(entries)
  BY <1>1, EntryTypes DEF IInv
<1>5. device \in deviceLost
  BY <1>4 DEF IInv, LossIsNative
<1>6. QED
  BY <1>3, <1>5 DEF OutOfTheWay

LEMMA ReclaimStep == ASSUME IInv, NEW d \in Devices, Reclaim(d) PROVE IInv'
<1> USE DEF callVars, gpuVars, Reclaim
<1>1. lost
  BY DEF ReclaimError
<1>2. where' = [r \in Resources |-> IF where[r] = "queue" THEN "destroyed" ELSE where[r]]
  BY EntryOwners
<1>3. TypeOK'
  BY <1>2, EmptySeq DEF IInv, TypeOK, Successes
<1>4. EntriesCovered' /\ OneDevice' /\ Held' = {}
  BY <1>2 DEF EntriesCovered, OneDevice, Held
<1>5. HeldExactlyOnce'
  BY <1>4 DEF HeldExactlyOnce
<1>6. LossIsNative' /\ CollectSound'
  BY DEF IInv, LossIsNative, CollectSound, Callable
<1>7. NoEarlyDestruction'
  BY <1>1, <1>2, LostDeviceFreesAll DEF IInv, NoEarlyDestruction, OutOfTheWay
<1>8. FailFast'
  BY DEF FailFast, Callable
<1>9. QED
  BY <1>3, <1>4, <1>5, <1>6, <1>7, <1>8 DEF IInv

LEMMA DestroyQueueStep == ASSUME IInv, DestroyQueue PROVE IInv'
<1> USE DEF queueVars, callVars, ownerVars, gpuVars, DestroyQueue
<1>1. TypeOK'
  BY DEF IInv, TypeOK, Destructed
<1>2. EntriesCovered' /\ HeldExactlyOnce'
  BY DEF IInv, EntriesCovered, HeldExactlyOnce, Held
<1>3. OneDevice' /\ LossIsNative'
  BY DEF IInv, OneDevice, LossIsNative
<1>4. CollectSound' /\ NoEarlyDestruction'
  BY DEF IInv, CollectSound, NoEarlyDestruction, OutOfTheWay, Callable
<1>5. entries = <<>> <=> Held = {}
  BY EntryTypes, EntryOwners DEF IInv, Held
<1>6. FailFast'
  BY <1>5 DEF FailFast, Destructed, Held
<1>7. QED
  BY <1>1, <1>2, <1>3, <1>4, <1>6 DEF IInv

LEMMA GPUStep ==
    ASSUME IInv, (\E s \in Submissions : Complete(s)) \/ (\E d \in Devices : LoseDevice(d))
    PROVE  IInv'
<1> USE DEF queueVars, callVars, ownerVars, gpuVars, Complete, LoseDevice
<1>1. TypeOK'
  BY DEF IInv, TypeOK
<1>2. \A s \in Submissions : OutOfTheWay(s) => OutOfTheWay(s)'
  BY DEF IInv, TypeOK, OutOfTheWay
<1>3. EntriesCovered' /\ HeldExactlyOnce'
  BY DEF IInv, EntriesCovered, HeldExactlyOnce, Held
<1>4. OneDevice' /\ LossIsNative' /\ FailFast'
  BY DEF IInv, OneDevice, LossIsNative, FailFast, Held
<1>5. NoEarlyDestruction'
  BY <1>2 DEF IInv, TypeOK, NoEarlyDestruction
<1>6. CollectSound'
  BY <1>2, EntryTypes DEF IInv, TypeOK, CollectSound
<1>7. QED
  BY <1>1, <1>3, <1>4, <1>5, <1>6 DEF IInv

-----------------------------------------------------------------------------
(* The invariant, and what follows from it                                 *)

THEOREM NextInvariant == IInv /\ [Next]_vars => IInv'
<1> SUFFICES ASSUME IInv, [Next]_vars PROVE IInv'
  OBVIOUS
<1>1. ASSUME NEW r \in Resources, NEW uses \in UseLists,
             RetireRejected(r, uses) \/ RetireOutOfMemory(r, uses) \/ Retire(r, uses)
      PROVE  IInv'
  BY <1>1, QuietCalls, RetireStep
<1>2. ASSUME CollectRefused \/ CollectOutOfMemory \/ RequireEmpty PROVE IInv'
  BY <1>2, QuietCalls
<1>3. CASE CollectBegin
  BY <1>3, CollectBeginStep
<1>4. CASE CollectPoll
  BY <1>4, PollAnsweredStep, PollFailedStep DEF CollectPoll
<1>5. CASE CollectPolled
  BY <1>5, CollectPolledStep
<1>6. CASE CollectRelease
  BY <1>6, CollectReleaseStep
<1>7. CASE CollectReturns
  BY <1>7, CollectReturnsStep
<1>8. ASSUME NEW d \in Devices, ReclaimRejected(d) \/ Reclaim(d) \/ MoveDevice(d) PROVE IInv'
  BY <1>8, QuietCalls, ReclaimStep
<1>9. CASE DestroyQueue
  BY <1>9, DestroyQueueStep
<1>10. CASE (\E s \in Submissions : Complete(s)) \/ (\E d \in Devices : LoseDevice(d))
  BY <1>10, GPUStep
<1>11. CASE UNCHANGED vars
  <2>1. Quiet /\ TypeOK'
    BY <1>11 DEF vars, Quiet, queueVars, callVars, ownerVars, gpuVars, IInv, TypeOK
  <2>2. QED
    BY <2>1, QuietStep
<1>12. QED
  BY <1>1, <1>2, <1>3, <1>4, <1>5, <1>6, <1>7, <1>8, <1>9, <1>10, <1>11 DEF Next

(* The inductive invariant holds in every reachable state.                 *)
THEOREM InductiveInvariant == Spec => []IInv
BY InitInvariant, NextInvariant, PTL DEF Spec

(* The state of the queue, of a collect() in progress and of the GPU keeps  *)
(* its type.                                                                *)
THEOREM TypeCorrect == Spec => []TypeOK
<1>1. IInv => TypeOK
  BY DEF IInv
<1>2. QED
  BY <1>1, InductiveInvariant, PTL

(* No owner is destroyed while a submission it was retired with may still   *)
(* use it.                                                                  *)
THEOREM NothingDestroyedEarly == Spec => []NoEarlyDestruction
<1>1. IInv => NoEarlyDestruction
  BY DEF IInv
<1>2. QED
  BY <1>1, InductiveInvariant, PTL

(* An owner handed over is in one entry, with its own receipts.            *)
THEOREM OwnershipIsUnique == Spec => []HeldExactlyOnce
<1>1. IInv => HeldExactlyOnce
  BY DEF IInv
<1>2. QED
  BY <1>1, InductiveInvariant, PTL

(* The queue never mixes Devices and forgets the last one when it drains.   *)
THEOREM OneDeviceAtATime == Spec => []OneDevice
<1>1. IInv => OneDevice
  BY DEF IInv
<1>2. QED
  BY <1>1, InductiveInvariant, PTL

(* The reclaim path opens only for a device that is lost.                   *)
THEOREM LatchedLossIsNative == Spec => []LossIsNative
<1>1. IInv => LossIsNative
  BY DEF IInv
<1>2. QED
  BY <1>1, InductiveInvariant, PTL

(* An entry marked ready is still ready when the erase loop reaches it.     *)
THEOREM CollectIsSound == Spec => []CollectSound
<1>1. IInv => CollectSound
  BY DEF IInv
<1>2. QED
  BY <1>1, InductiveInvariant, PTL

(* A destroyed queue object held nothing.                                   *)
THEOREM DestructorFailsFast == Spec => []FailFast
<1>1. IInv => FailFast
  BY DEF IInv
<1>2. QED
  BY <1>1, InductiveInvariant, PTL

-----------------------------------------------------------------------------
(* Action properties                                                       *)

(* While receipts are polled, the owners held are those at the call.        *)
PollingHolds == pc = "polling" => heldAtCall = Held

LEMMA HeldWhilePolling == Spec => []PollingHolds
<1>1. Init => PollingHolds
  BY DEF Init, PollingHolds
<1>2. PollingHolds /\ [Next]_vars => PollingHolds'
  <2> SUFFICES ASSUME PollingHolds, [Next]_vars PROVE PollingHolds'
    OBVIOUS
  <2> USE DEF PollingHolds, Held, queueVars, callVars, ownerVars, gpuVars, Callable
  <2>1. CASE \E r \in Resources, uses \in UseLists :
               RetireRejected(r, uses) \/ RetireOutOfMemory(r, uses) \/ Retire(r, uses)
    BY <2>1 DEF RetireRejected, RetireOutOfMemory, Retire
  <2>2. CASE CollectRefused \/ CollectOutOfMemory \/ RequireEmpty \/ DestroyQueue
    BY <2>2 DEF CollectRefused, CollectOutOfMemory, RequireEmpty, DestroyQueue
  <2>3. CASE CollectBegin
    BY <2>3 DEF CollectBegin
  <2>4. CASE CollectPoll
    BY <2>4 DEF CollectPoll, PollFailed, PollAnswered, CallEnds
  <2>5. CASE CollectPolled \/ CollectRelease \/ CollectReturns
    BY <2>5 DEF CollectPolled, EraseStart, CollectRelease, CollectReturns, CallEnds
  <2>6. CASE \E d \in Devices : ReclaimRejected(d) \/ Reclaim(d)
    BY <2>6 DEF ReclaimRejected, Reclaim
  <2>7. CASE (\E s \in Submissions : Complete(s)) \/ (\E d \in Devices : LoseDevice(d) \/ MoveDevice(d))
    BY <2>7 DEF Complete, LoseDevice, MoveDevice
  <2>8. CASE UNCHANGED vars
    BY <2>8 DEF vars
  <2>9. QED
    BY <2>1, <2>2, <2>3, <2>4, <2>5, <2>6, <2>7, <2>8 DEF Next
<1>3. QED
  BY <1>1, <1>2, PTL DEF Spec

(* A collect() that returns an error destroyed nothing.                     *)
THEOREM FailedCollectKeepsOwners == Spec => ErrorReleasesNothing
<1>1. PollingHolds /\ [Next]_vars =>
        [pc # "idle" /\ pc' = "idle" /\ reply' # "collected" => heldAtCall \subseteq Held']_vars
  <2> SUFFICES ASSUME PollingHolds, Next, pc # "idle", pc' = "idle", reply' # "collected"
               PROVE  heldAtCall \subseteq Held'
    BY DEF vars
  <2>1. CollectPoll
    BY DEF Next, Callable, callVars, RetireRejected, RetireOutOfMemory, Retire, CollectRefused,
       CollectOutOfMemory, CollectBegin, CollectPolled, EraseStart, CollectRelease, CollectReturns,
       CallEnds, ReclaimRejected, Reclaim, RequireEmpty, DestroyQueue, Complete, LoseDevice,
       MoveDevice
  <2>2. UNCHANGED where
    BY <2>1 DEF CollectPoll, PollFailed, PollAnswered, ownerVars
  <2>3. QED
    BY <2>1, <2>2 DEF CollectPoll, PollingHolds, Held
<1>2. QED
  BY <1>1, HeldWhilePolling, PTL DEF Spec, ErrorReleasesNothing

(* A queue that saw its device lost takes nothing more.                     *)
THEOREM LostQueueIsClosed == Spec => LostQueueTakesNothing
<1>1. TypeOK /\ [Next]_vars => [lost => Held' \subseteq Held]_vars
  <2> SUFFICES ASSUME TypeOK, Next, lost PROVE Held' \subseteq Held
    BY DEF vars
  <2> USE DEF Held, ownerVars
  <2>1. CASE \E r \in Resources, uses \in UseLists :
               RetireRejected(r, uses) \/ RetireOutOfMemory(r, uses) \/ Retire(r, uses)
    BY <2>1 DEF RetireRejected, RetireOutOfMemory, Retire, RetireError
  <2>2. CASE \/ CollectRefused \/ CollectOutOfMemory \/ RequireEmpty \/ DestroyQueue
             \/ CollectBegin \/ CollectPolled \/ CollectReturns
    BY <2>2 DEF CollectRefused, CollectOutOfMemory, RequireEmpty, DestroyQueue,
       CollectBegin, CollectPolled, EraseStart, CollectReturns
  <2>3. CASE CollectPoll
    BY <2>3 DEF CollectPoll, PollFailed, PollAnswered
  <2>4. CASE CollectRelease
    BY <2>4 DEF CollectRelease, TypeOK
  <2>5. CASE \E d \in Devices : ReclaimRejected(d) \/ Reclaim(d)
    BY <2>5 DEF ReclaimRejected, Reclaim
  <2>6. CASE (\E s \in Submissions : Complete(s)) \/ (\E d \in Devices : LoseDevice(d) \/ MoveDevice(d))
    BY <2>6 DEF Complete, LoseDevice, MoveDevice
  <2>7. QED
    BY <2>1, <2>2, <2>3, <2>4, <2>5, <2>6 DEF Next
<1>2. QED
  BY <1>1, TypeCorrect, PTL DEF Spec, LostQueueTakesNothing

-----------------------------------------------------------------------------
(* Implementation of the contract                                          *)

LEMMA ContractInit == Init => Contract!Init
BY DEF Init, Contract!Init

LEMMA ContractOutOfTheWay ==
    ASSUME NEW s \in Submissions
    PROVE  Contract!OutOfTheWay(s) <=> OutOfTheWay(s)
BY DEF Contract!OutOfTheWay, OutOfTheWay

(* All uses of all held owners run on device_.                              *)
LEMMA HeldUsesOnDevice ==
    ASSUME IInv, NEW r \in Resources, where[r] = "queue", NEW s \in declared[r]
    PROVE  DeviceOf[s] = device
<1>1. PICK k \in DOMAIN entries : entries[k].owner = r
  BY EntryOwners
<1>2. s \in UsesOf(entries[k].receipts)
  BY <1>1 DEF IInv, HeldExactlyOnce
<1>3. QED
  BY <1>2 DEF IInv, OneDevice

LEMMA RetireHandsOver ==
    ASSUME IInv, NEW r \in Resources, NEW uses \in UseLists, Retire(r, uses)
    PROVE  Contract!HandOver(r, UsesOf(uses)) /\ UsesOf(uses) \in SUBSET Submissions
<1>1. /\ where[r] = "caller" /\ ~lost /\ uses \in Seq(Submissions) /\ uses # <<>>
      /\ 1 \in DOMAIN uses /\ DeviceOf[uses[1]] \in Devices
      /\ \A k \in DOMAIN uses : DeviceOf[uses[k]] = DeviceOf[uses[1]]
      /\ device # NoDevice => DeviceOf[uses[1]] = device
  BY AcceptedUses DEF Retire
<1>2. UsesOf(uses) \in SUBSET Submissions /\ UsesOf(uses) # {}
  BY <1>1 DEF UsesOf
<1>3. \A s \in UsesOf(uses) : DeviceOf[s] = DeviceOf[uses[1]]
  BY <1>1 DEF UsesOf
<1>4. \A h \in Held : \A t \in declared[h] : DeviceOf[t] = device /\ device # NoDevice
  <2> SUFFICES ASSUME NEW h \in Held, NEW t \in declared[h]
               PROVE  DeviceOf[t] = device /\ device # NoDevice
    OBVIOUS
  <2>1. h \in Resources /\ where[h] = "queue"
    BY DEF Held
  <2>2. DeviceOf[t] = device /\ t \in Submissions
    BY <2>1, HeldUsesOnDevice DEF IInv, TypeOK
  <2>3. QED
    BY <2>2, RetirementAssumption
<1>5. Contract!Held = Held
  BY DEF Contract!Held, Held
<1>6. \A s \in UsesOf(uses), h \in Held : \A t \in declared[h] : DeviceOf[s] = DeviceOf[t]
  BY <1>1, <1>3, <1>4
<1>7. QED
  BY <1>1, <1>2, <1>3, <1>5, <1>6
     DEF Retire, Contract!HandOver, gpuVars

LEMMA ReleaseReleases ==
    ASSUME IInv, CollectRelease, ready[at]
    PROVE  \E r \in Resources : Contract!Release(r)
<1> DEFINE r == entries[at].owner
<1>1. /\ pc = "releasing" /\ at \in DOMAIN entries /\ ~lost /\ at \in DOMAIN ready
  BY EntryTypes, LenProperties DEF IInv, TypeOK, CollectSound, CollectRelease
<1>2. /\ r \in Resources /\ where[r] = "queue" /\ UsesOf(entries[at].receipts) = declared[r]
      /\ declared[r] \in SUBSET Submissions
  BY <1>1, EntryTypes DEF IInv, HeldExactlyOnce, TypeOK
<1>3. \A s \in declared[r] : Contract!OutOfTheWay(s)
  BY <1>1, <1>2, ContractOutOfTheWay DEF IInv, CollectSound, TypeOK
<1>4. Contract!Release(r)
  BY <1>1, <1>2, <1>3 DEF CollectRelease, Contract!Release, gpuVars
<1>5. QED
  BY <1>2, <1>4

LEMMA LossIsObserved ==
    ASSUME IInv, CollectPoll, "native_device_lost" \in Poll(Polled),
           PollFailed("native_device_lost")
    PROVE  Contract!ObserveLoss
<1>1. ~lost /\ at \in DOMAIN entries /\ device \in deviceLost
  BY PollLemma DEF CollectPoll, IInv, CollectSound
<1>2. entries[at].owner \in Held
  BY <1>1, EntryTypes DEF IInv, HeldExactlyOnce, Held
<1>3. \A r \in Held : \A s \in declared[r] : DeviceOf[s] \in deviceLost
  BY <1>1, HeldUsesOnDevice DEF Held
<1>4. Contract!Held = Held
  BY DEF Contract!Held, Held
<1>5. lost' = TRUE /\ UNCHANGED <<where, declared, work, deviceLost>>
  BY DEF CollectPoll, PollFailed, Latches, ownerVars, gpuVars
<1>6. QED
  BY <1>1, <1>2, <1>3, <1>4, <1>5 DEF Contract!ObserveLoss

LEMMA ReclaimReclaimsAll ==
    ASSUME IInv, NEW d \in Devices, Reclaim(d)
    PROVE  Contract!ReclaimAll
<1>1. lost /\ lost' = lost
  BY DEF Reclaim, ReclaimError
<1>2. where' = [r \in Resources |-> IF r \in Contract!Held THEN "destroyed" ELSE where[r]]
  BY EntryOwners DEF Reclaim, Contract!Held
<1>3. QED
  BY <1>1, <1>2 DEF Reclaim, Contract!ReclaimAll, gpuVars

ContractUnchanged == UNCHANGED <<where, declared, work, deviceLost, lost>>

LEMMA StepImplementsContract ==
    IInv /\ [Next]_vars => [Contract!Next]_(Contract!contractVars)
<1> SUFFICES ASSUME IInv, [Next]_vars PROVE Contract!Next \/ ContractUnchanged
  BY DEF Contract!contractVars, ContractUnchanged
<1> USE DEF ContractUnchanged, ownerVars, gpuVars, queueVars
<1>1. CASE \E r \in Resources, uses \in UseLists :
             RetireRejected(r, uses) \/ RetireOutOfMemory(r, uses)
  BY <1>1 DEF RetireRejected, RetireOutOfMemory
<1>2. CASE \E r \in Resources, uses \in UseLists : Retire(r, uses)
  BY <1>2, RetireHandsOver DEF Contract!Next
<1>3. CASE \/ CollectRefused \/ CollectOutOfMemory \/ RequireEmpty \/ DestroyQueue
           \/ CollectBegin \/ CollectPolled \/ CollectReturns
  BY <1>3 DEF CollectRefused, CollectOutOfMemory, RequireEmpty, DestroyQueue,
     CollectBegin, CollectPolled, EraseStart, CollectReturns
<1>4. CASE CollectPoll
  <2>1. PICK o \in Poll(Polled) :
          IF o \in PollFailures THEN PollFailed(o) ELSE PollAnswered(o)
    BY <1>4 DEF CollectPoll
  <2>2. CASE o = "native_device_lost"
    BY <1>4, <2>1, <2>2, LossIsObserved DEF Contract!Next, PollFailures
  <2>3. CASE o \in PollFailures /\ o # "native_device_lost"
    BY <1>4, <2>1, <2>3 DEF CollectPoll, PollFailed, Latches, IInv, TypeOK
  <2>4. CASE o \notin PollFailures
    BY <1>4, <2>1, <2>4 DEF CollectPoll, PollAnswered
  <2>5. QED
    BY <2>2, <2>3, <2>4
<1>5. CASE CollectRelease
  BY <1>5, ReleaseReleases DEF CollectRelease, Contract!Next
<1>6. CASE \E d \in Devices : ReclaimRejected(d) \/ MoveDevice(d)
  BY <1>6 DEF ReclaimRejected, MoveDevice
<1>7. CASE \E d \in Devices : Reclaim(d)
  BY <1>7, ReclaimReclaimsAll DEF Contract!Next
<1>8. ASSUME NEW s \in Submissions, Complete(s) PROVE Contract!Next
  <2>1. {t \in Submissions : work[t] = "completed"}' =
          {t \in Submissions : work[t] = "completed"} \cup {s}
    BY <1>8 DEF Complete, IInv, TypeOK
  <2>2. Contract!Finish(s)
    BY <1>8, <2>1 DEF Complete, Contract!Finish
  <2>3. QED
    BY <2>2 DEF Contract!Next
<1>9. ASSUME NEW d \in Devices, LoseDevice(d) PROVE Contract!Next
  BY <1>9 DEF LoseDevice, Contract!Lose, Contract!Next
<1>10. CASE UNCHANGED vars
  BY <1>10 DEF vars
<1>11. QED
  BY <1>1, <1>2, <1>3, <1>4, <1>5, <1>6, <1>7, <1>8, <1>9, <1>10 DEF Next

(* RetirementQueue implements RetirementContract.                           *)
THEOREM QueueImplementsContract == Spec => ImplementsContract
<1>1. Init => Contract!Init
  BY ContractInit
<1>2. IInv /\ [Next]_vars => [Contract!Next]_(Contract!contractVars)
  BY StepImplementsContract
<1>3. QED
  BY <1>1, <1>2, InductiveInvariant, PTL DEF Spec, ImplementsContract, Contract!Spec
=============================================================================

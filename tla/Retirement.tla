----------------------------- MODULE Retirement -----------------------------
(***************************************************************************)
(* graphics/retirement.{hpp,cpp}: RetirementQueue, the caller-driven queue *)
(* that holds move-only owners until the GPU submissions that use them     *)
(* have completed, together with the part of submission.cpp it relies on   *)
(* (SubmissionReceipt::poll) and the GPU itself, which completes work and  *)
(* loses devices at any moment, between two polls of the same collect().   *)
(*                                                                         *)
(* The queue's calls run on one application thread.  retire(), reclaim()   *)
(* and the destructor are single steps: nothing they read can change while *)
(* they run.  collect() is a step per native poll and a step per erased    *)
(* entry, because the GPU runs on while it iterates.                       *)
(***************************************************************************)
EXTENDS Integers, Sequences

CONSTANTS
    Resources,      \* owners the application may retire
    Submissions,    \* batches vkQueueSubmit2 accepted: each one has a receipt
    Devices,        \* Device wrappers
    NoDevice,       \* the null device_
    DeviceOf,       \* the wrapper each receipt's completion borrows
    UseLists,       \* the receipt spans callers pass to retire()
    MaxFaults       \* bound: bad_allocs and failed native queries in a behaviour

ASSUME RetirementAssumption ==
    /\ NoDevice \notin Devices
    /\ DeviceOf \in [Submissions -> Devices]
    /\ UseLists \subseteq Seq(Submissions)
    /\ MaxFaults \in Nat

VARIABLES
    entries,        \* entries_: owners with their receipts, in retire order
    device,         \* device_
    lost,           \* lost_
    queue,          \* the RetirementQueue object: "live", "gone" or "terminated"
    pc,             \* collect(): "idle", "polling" or "releasing"
    at,             \* its entry index i
    term,           \* its position in the receipts of entry i
    all,            \* its conjunction over the receipts of entry i
    ready,          \* its vector<bool>, grown as entries are polled
    reply,          \* what the last call returned
    where,          \* each owner: "caller", "queue" (moved in) or "destroyed"
    declared,       \* history: the uses each owner was retired with
    heldAtCall,     \* history: the owners held when collect() was called
    work,           \* GPU: each batch is "pending" or "completed"
    deviceLost,     \* GPU: devices in the lost state
    inPlace,        \* is the Device wrapper still at its original address?
    faults          \* transient failures so far, at most MaxFaults

queueVars == <<entries, device, lost>>
callVars == <<pc, at, term, all, ready, heldAtCall>>
ownerVars == <<where, declared>>
gpuVars == <<work, deviceLost>>
vars == <<entries, device, lost, queue, pc, at, term, all, ready, reply, where,
          declared, heldAtCall, work, deviceLost, inPlace, faults>>

Entry == [owner : Resources, receipts : Seq(Submissions)]

Rejections == {"invalid_resource", "device_lost", "missing_completion",
               "invalid_completion", "device_mismatch", "allocation_failed",
               "device_loss_not_observed", "pending_entries"}
PollFailures == {"invalid_device", "native_device_lost", "native_error"}
Successes == {"none", "retired", "collected", "reclaimed", "empty"}

TypeOK ==
    /\ entries \in Seq(Entry)
    /\ device \in Devices \cup {NoDevice}
    /\ lost \in BOOLEAN
    /\ queue \in {"live", "gone", "terminated"}
    /\ pc \in {"idle", "polling", "releasing"}
    /\ at \in Nat
    /\ term \in Nat
    /\ all \in BOOLEAN
    /\ ready \in Seq(BOOLEAN)
    /\ reply \in Rejections \cup PollFailures \cup Successes
    /\ where \in [Resources -> {"caller", "queue", "destroyed"}]
    /\ declared \in [Resources -> SUBSET Submissions]
    /\ heldAtCall \subseteq Resources
    /\ work \in [Submissions -> {"pending", "completed"}]
    /\ deviceLost \subseteq Devices
    /\ inPlace \in [Devices -> BOOLEAN]
    /\ faults \in 0..MaxFaults

Init ==
    /\ entries = <<>>
    /\ device = NoDevice
    /\ lost = FALSE
    /\ queue = "live"
    /\ pc = "idle"
    /\ at = 0
    /\ term = 0
    /\ all = TRUE
    /\ ready = <<>>
    /\ reply = "none"
    /\ where = [r \in Resources |-> "caller"]
    /\ declared = [r \in Resources |-> {}]
    /\ heldAtCall = {}
    /\ work = [s \in Submissions |-> "pending"]
    /\ deviceLost = {}
    /\ inPlace = [d \in Devices |-> TRUE]
    /\ faults = 0

\* The application thread is between calls on a constructed queue.
Callable == queue = "live" /\ pc = "idle"

Held == {r \in Resources : where[r] = "queue"}
UsesOf(receipts) == {receipts[k] : k \in DOMAIN receipts}

-----------------------------------------------------------------------------
(* External: one native status query, as SubmissionReceipt::poll sees it.  *)
(* Vulkan lets a query on a lost device answer with the loss or success;   *)
(* any query may fail with a transient error.                              *)
NativeStatus(s) ==
    (IF DeviceOf[s] \in deviceLost THEN {"native_device_lost", "completed"}
                                   ELSE {work[s]})
    \cup (IF faults < MaxFaults THEN {"native_error"} ELSE {})

\* SubmissionReceipt::poll: validateCompletion, then exactly one query.
Poll(s) == IF inPlace[DeviceOf[s]] THEN NativeStatus(s) ELSE {"invalid_device"}

-----------------------------------------------------------------------------
(* retire(owner, uses)                                                     *)

\* The positions of uses that the validation loop refuses: a borrow that is
\* no longer valid, or another device than the first receipt's or the queue's.
Mismatched(uses) ==
    {k \in DOMAIN uses : \/ DeviceOf[uses[k]] # DeviceOf[uses[1]]
                         \/ device # NoDevice /\ DeviceOf[uses[k]] # device}
Dangling(uses) == {k \in DOMAIN uses : ~inPlace[DeviceOf[uses[k]]]}

\* The first position a receipt is refused at decides the error.
UsesError(uses) ==
    LET refused == Mismatched(uses) \cup Dangling(uses)
        first == CHOOSE k \in refused : \A m \in refused : k <= m
    IN  IF refused = {} THEN "none"
        ELSE IF first \in Dangling(uses) THEN "invalid_completion"
        ELSE "device_mismatch"

RetireError(r, uses) ==
    IF where[r] # "caller" THEN "invalid_resource"
    ELSE IF lost THEN "device_lost"
    ELSE IF uses = <<>> THEN "missing_completion"
    ELSE UsesError(uses)

RetireRejected(r, uses) ==
    /\ Callable
    /\ RetireError(r, uses) # "none"
    /\ reply' = RetireError(r, uses)
    /\ UNCHANGED <<queueVars, queue, callVars, ownerVars, gpuVars, inPlace, faults>>

\* bad_alloc before the noexcept move: the caller keeps the owner.
RetireOutOfMemory(r, uses) ==
    /\ Callable
    /\ RetireError(r, uses) = "none"
    /\ faults < MaxFaults
    /\ faults' = faults + 1
    /\ reply' = "allocation_failed"
    /\ UNCHANGED <<queueVars, queue, callVars, ownerVars, gpuVars, inPlace>>

Retire(r, uses) ==
    /\ Callable
    /\ RetireError(r, uses) = "none"
    /\ entries' = Append(entries, [owner |-> r, receipts |-> uses])
    /\ device' = DeviceOf[uses[1]]
    /\ where' = [where EXCEPT ![r] = "queue"]
    /\ declared' = [declared EXCEPT ![r] = UsesOf(uses)]
    /\ reply' = "retired"
    /\ UNCHANGED <<lost, queue, callVars, gpuVars, inPlace, faults>>

-----------------------------------------------------------------------------
(* collect()                                                               *)

CollectRefused ==
    /\ Callable
    /\ lost
    /\ reply' = "device_lost"
    /\ UNCHANGED <<queueVars, queue, callVars, ownerVars, gpuVars, inPlace, faults>>

CollectOutOfMemory ==
    /\ Callable
    /\ ~lost
    /\ faults < MaxFaults
    /\ faults' = faults + 1
    /\ reply' = "allocation_failed"
    /\ UNCHANGED <<queueVars, queue, callVars, ownerVars, gpuVars, inPlace>>

\* The first receipt's conjunction starts true for every entry.
CollectBegin ==
    /\ Callable
    /\ ~lost
    /\ pc' = "polling"
    /\ at' = 1
    /\ term' = 1
    /\ all' = TRUE
    /\ ready' = <<>>
    /\ heldAtCall' = Held
    /\ UNCHANGED <<queueVars, queue, reply, ownerVars, gpuVars, inPlace, faults>>

\* The receipt the loop is at.
Polled == entries[at].receipts[term]

\* Variant: the last receipt alone decides.
ConjoinLast(outcome) == outcome = "completed"

\* all, after a receipt answered with outcome.
Conjoin(outcome) == all /\ outcome = "completed"

\* Variant: the erased position is one too far.
EraseBehind(k) ==
    [m \in 1..(Len(entries) - 1) |-> IF m <= k THEN entries[m] ELSE entries[m + 1]]

\* entries_.erase: the entries behind k move one place forward.
EraseEntry(k) ==
    [m \in 1..(Len(entries) - 1) |-> IF m < k THEN entries[m] ELSE entries[m + 1]]

\* Variant: one phase, a completed entry is erased as soon as it is polled.
PollAnsweredErasing(outcome) ==
    /\ IF term < Len(entries[at].receipts)
         THEN /\ term' = term + 1
              /\ all' = Conjoin(outcome)
              /\ UNCHANGED <<at, ready, entries, where>>
         ELSE /\ term' = 1
              /\ all' = TRUE
              /\ IF Conjoin(outcome)
                   THEN /\ entries' = EraseEntry(at)
                        /\ where' = [where EXCEPT ![entries[at].owner] = "destroyed"]
                        /\ UNCHANGED <<at, ready>>
                   ELSE /\ at' = at + 1
                        /\ ready' = Append(ready, FALSE)
                        /\ UNCHANGED <<entries, where>>
    /\ UNCHANGED <<pc, heldAtCall, device, lost, reply, faults, declared>>

\* A receipt answered: on to the next one, or to the next entry.
PollAnswered(outcome) ==
    /\ IF term < Len(entries[at].receipts)
         THEN /\ term' = term + 1
              /\ all' = Conjoin(outcome)
              /\ UNCHANGED <<at, ready>>
         ELSE /\ ready' = Append(ready, Conjoin(outcome))
              /\ at' = at + 1
              /\ term' = 1
              /\ all' = TRUE
    /\ UNCHANGED <<pc, heldAtCall, queueVars, reply, faults, ownerVars>>

\* collect() returns.
CallEnds(result) ==
    /\ pc' = "idle"
    /\ at' = 0
    /\ term' = 0
    /\ all' = TRUE
    /\ ready' = <<>>
    /\ heldAtCall' = {}
    /\ reply' = result

\* Variants: every failed poll latches, or none does.
LatchesAnyFailure(outcome) == TRUE
LatchesNothing(outcome) == FALSE

\* Does this poll error latch lost_?
Latches(outcome) == outcome = "native_device_lost"

\* Any poll error ends the call at once; only a native device loss latches.
PollFailed(outcome) ==
    /\ CallEnds(outcome)
    /\ lost' = (lost \/ Latches(outcome))
    /\ faults' = faults + (IF outcome = "native_error" THEN 1 ELSE 0)
    /\ UNCHANGED <<entries, device, ownerVars>>

CollectPoll ==
    /\ pc = "polling"
    /\ at <= Len(entries)
    /\ \E outcome \in Poll(Polled) :
         IF outcome \in PollFailures THEN PollFailed(outcome)
                                     ELSE PollAnswered(outcome)
    /\ UNCHANGED <<queue, gpuVars, inPlace>>

\* The erase loop counts down from size(), and stops at 0.
EraseStart == Len(entries)

\* Every receipt answered: the second phase starts at the last entry.
CollectPolled ==
    /\ pc = "polling"
    /\ at > Len(entries)
    /\ pc' = "releasing"
    /\ at' = EraseStart
    /\ UNCHANGED <<term, all, ready, heldAtCall, queueVars, queue, reply, ownerVars,
                   gpuVars, inPlace, faults>>

\* The entry at i - 1, if ready, is erased; its owner's destructor runs.
CollectRelease ==
    /\ pc = "releasing"
    /\ at > 0
    /\ IF ready[at]
         THEN /\ entries' = EraseEntry(at)
              /\ where' = [where EXCEPT ![entries[at].owner] = "destroyed"]
         ELSE UNCHANGED <<entries, where>>
    /\ at' = at - 1
    /\ UNCHANGED <<pc, term, all, ready, heldAtCall, device, lost, queue, reply,
                   declared, gpuVars, inPlace, faults>>

\* device_ once the erase loop is done.
DeviceAfterRelease == IF entries = <<>> THEN NoDevice ELSE device

CollectReturns ==
    /\ pc = "releasing"
    /\ at = 0
    /\ device' = DeviceAfterRelease
    /\ CallEnds("collected")
    /\ UNCHANGED <<entries, lost, queue, ownerVars, gpuVars, inPlace, faults>>

-----------------------------------------------------------------------------
(* reclaimAfterDeviceLoss(d), requireEmpty() and the destructor            *)

ReclaimError(d) ==
    IF ~lost THEN "device_loss_not_observed"
    ELSE IF d # device \/ ~inPlace[d] THEN "device_mismatch"
    ELSE "none"

ReclaimRejected(d) ==
    /\ Callable
    /\ ReclaimError(d) # "none"
    /\ reply' = ReclaimError(d)
    /\ UNCHANGED <<queueVars, queue, callVars, ownerVars, gpuVars, inPlace, faults>>

Reclaim(d) ==
    /\ Callable
    /\ ReclaimError(d) = "none"
    /\ entries' = <<>>
    /\ where' = [r \in Resources |->
                   IF \E k \in DOMAIN entries : entries[k].owner = r
                     THEN "destroyed" ELSE where[r]]
    /\ device' = NoDevice
    /\ reply' = "reclaimed"
    /\ UNCHANGED <<lost, queue, callVars, declared, gpuVars, inPlace, faults>>

RequireEmpty ==
    /\ Callable
    /\ reply' = IF entries = <<>> THEN "empty" ELSE "pending_entries"
    /\ UNCHANGED <<queueVars, queue, callVars, ownerVars, gpuVars, inPlace, faults>>

\* What the destructor leaves: std::terminate when entries remain.
Destructed == IF entries = <<>> THEN "gone" ELSE "terminated"

DestroyQueue ==
    /\ Callable
    /\ queue' = Destructed
    /\ UNCHANGED <<queueVars, callVars, reply, ownerVars, gpuVars, inPlace, faults>>

-----------------------------------------------------------------------------
(* External: the GPU and the application's Device wrappers                 *)

Complete(s) ==
    /\ work[s] = "pending"
    /\ work' = [work EXCEPT ![s] = "completed"]
    /\ UNCHANGED <<queueVars, queue, callVars, reply, ownerVars, deviceLost, inPlace, faults>>

LoseDevice(d) ==
    /\ d \notin deviceLost
    /\ deviceLost' = deviceLost \cup {d}
    /\ UNCHANGED <<queueVars, queue, callVars, reply, ownerVars, work, inPlace, faults>>

\* The application moves a Device away from its address, or back to it.
MoveDevice(d) ==
    /\ pc = "idle"
    /\ inPlace' = [inPlace EXCEPT ![d] = ~@]
    /\ UNCHANGED <<queueVars, queue, callVars, reply, ownerVars, gpuVars, faults>>

Next ==
    \/ \E r \in Resources, uses \in UseLists :
         \/ RetireRejected(r, uses)
         \/ RetireOutOfMemory(r, uses)
         \/ Retire(r, uses)
    \/ CollectRefused
    \/ CollectOutOfMemory
    \/ CollectBegin
    \/ CollectPoll
    \/ CollectPolled
    \/ CollectRelease
    \/ CollectReturns
    \/ \E d \in Devices : ReclaimRejected(d) \/ Reclaim(d)
    \/ RequireEmpty
    \/ DestroyQueue
    \/ \E s \in Submissions : Complete(s)
    \/ \E d \in Devices : LoseDevice(d) \/ MoveDevice(d)

Spec == Init /\ [][Next]_vars

(* The application goes on calling collect(), and reclaims once the queue   *)
(* saw the loss; a call that was begun runs to its end; the GPU completes   *)
(* what it accepted.  The queue schedules nothing by itself.                *)
Fairness ==
    /\ WF_vars(CollectBegin)
    /\ WF_vars(CollectPoll)
    /\ WF_vars(CollectPolled)
    /\ WF_vars(CollectRelease)
    /\ WF_vars(CollectReturns)
    /\ \A d \in Devices : WF_vars(Reclaim(d))
    /\ \A s \in Submissions : WF_vars(Complete(s))

FairSpec == Spec /\ Fairness

-----------------------------------------------------------------------------
(* Properties                                                              *)

\* A batch can no longer use a resource: it completed, or its device is lost.
OutOfTheWay(s) == work[s] = "completed" \/ DeviceOf[s] \in deviceLost

(* No owner is destroyed while the GPU may still use it: every use it was   *)
(* retired with is out of the way.  collect() decides this from polls made  *)
(* long before the erase, with entries shifting as others are erased.       *)
NoEarlyDestruction ==
    \A r \in Resources :
        where[r] = "destroyed" => \A s \in declared[r] : OutOfTheWay(s)

(* An owner moved into the queue sits in exactly one entry, with the        *)
(* receipts it was retired with, and every entry's owner is in the queue:   *)
(* none leaks, none is destroyed twice, none swaps receipts with another.   *)
HeldExactlyOnce ==
    /\ \A k \in DOMAIN entries :
         /\ where[entries[k].owner] = "queue"
         /\ UsesOf(entries[k].receipts) = declared[entries[k].owner]
         /\ \A m \in DOMAIN entries : entries[m].owner = entries[k].owner => m = k
    /\ \A r \in Held : \E k \in DOMAIN entries : entries[k].owner = r

(* All receipts the queue holds are on device_, and device_ is forgotten    *)
(* when the last entry goes, so that a drained queue serves any Device.     *)
OneDevice ==
    /\ \A k \in DOMAIN entries : \A s \in UsesOf(entries[k].receipts) : DeviceOf[s] = device
    /\ pc = "idle" /\ entries = <<>> => device = NoDevice

(* lost_ is latched only for a device that really is lost, the one whose    *)
(* owners the queue holds: no transient query error and no dangling Device  *)
(* opens the reclaim path.                                                  *)
LossIsNative ==
    lost => /\ deviceLost # {}
            /\ entries # <<>> => device \in deviceLost

(* A collect() that returns a native or validation error has destroyed      *)
(* nothing: every owner held when it was called is still held.              *)
ErrorReleasesNothing ==
    [][pc # "idle" /\ pc' = "idle" /\ reply' # "collected" => heldAtCall \subseteq Held']_vars

(* Once the loss is latched the queue takes no further owner, neither       *)
(* before nor after the teardown.                                           *)
LostQueueTakesNothing == [][lost => Held' \subseteq Held]_vars

(* A queue object that is gone left nothing behind; with owners held the    *)
(* process stops instead, and no owner was freed on the way.                *)
FailFast ==
    /\ queue = "gone" => Held = {}
    /\ queue = "terminated" => Held # {}

(* If the Device wrappers stay (or come back) in place, every retired owner *)
(* is eventually destroyed, by collection or, after a loss, by reclaim,     *)
(* unless the application destroys the queue too early.                     *)
EventuallyReleased ==
    <>[](\A d \in Devices : inPlace[d]) =>
        \A r \in Resources :
            where[r] = "queue" ~> (where[r] = "destroyed" \/ queue = "terminated")

(* Where collect() is, and what it has learnt by then: the cursors stay in  *)
(* range of entries that shrink under them, and an entry marked ready, or   *)
(* found complete so far, still is so when the erase loop gets to it.       *)
CollectSound ==
    /\ pc # "idle" => ~lost /\ queue = "live"
    /\ pc = "polling" =>
         /\ at \in 1..(Len(entries) + 1)
         /\ Len(ready) = at - 1
         /\ term > 0
         /\ at <= Len(entries) =>
              /\ term <= Len(entries[at].receipts)
              /\ all => \A m \in 1..(term - 1) : OutOfTheWay(entries[at].receipts[m])
    /\ pc = "releasing" => at <= Len(entries) /\ at <= Len(ready)
    /\ \A k \in DOMAIN ready :
         ready[k] /\ (pc = "polling" \/ (pc = "releasing" /\ k <= at)) =>
             \A s \in UsesOf(entries[k].receipts) : OutOfTheWay(s)

-----------------------------------------------------------------------------
(* The queue implements its contract.                                      *)

Contract == INSTANCE RetirementContract WITH
    place <- where,
    coverage <- declared,
    finished <- {s \in Submissions : work[s] = "completed"},
    lostDevices <- deviceLost,
    latched <- lost

(* Every behaviour of the queue and the GPU is one the contract allows:     *)
(* owners leave only one at a time with all uses out of the way, or all at  *)
(* once after an observed loss.                                             *)
ImplementsContract == Contract!Spec
=============================================================================

-------------------------- MODULE CommandLifecycle --------------------------
(***************************************************************************)
(* graphics/command_pool.cpp and graphics/command_buffer.cpp: pools that   *)
(* own every native command buffer allocated from them, the stable records *)
(* that track the CPU-observed state of each, and the move-only views the  *)
(* application records through.  Beside each record stands the state       *)
(* Vulkan itself keeps for the buffer, which no wrapper can query: every   *)
(* native call may fail, and tracking must stay right all the same.        *)
(*                                                                         *)
(* The application keeps the contract of the class comments: it drops the  *)
(* views of a pool before it destroys or displaces the pool, and neither   *)
(* resets nor destroys what the GPU is executing.                          *)
(***************************************************************************)
EXTENDS Naturals, FiniteSets

CONSTANTS
    Pools,              \* CommandPool objects of the application
    Impls,              \* CommandPool::Impl, one per native pool
    Records,            \* CommandBuffer::Record, one per native allocation
    Views,              \* CommandBuffer objects of the application
    NoImpl, NoRecord,   \* null implementation_ and null record_
    Descriptions,       \* CommandPoolDescriptions passed to createCommandPool
    EnabledFamilies,    \* families with a queue allocation of the Device
    ProtectedFamilies,  \* families whose queues are protected
    ProtectedMemory,    \* is protectedMemory enabled on the Device?
    MaxFaults           \* bound: failed native calls and bad_allocs in a behaviour

PoolFlags == {"transient", "resetCommandBuffer", "protected", "unknown"}
BeginFlags == {"oneTimeSubmit", "simultaneousUse", "renderPassContinue"}
ResetFlags == {"releaseResources", "unknown"}

ASSUME LifecycleAssumption ==
    /\ NoImpl \notin Impls \cup Descriptions
    /\ NoRecord \notin Records
    /\ \A d \in Descriptions : d.flags \subseteq PoolFlags
    /\ ProtectedMemory \in BOOLEAN
    /\ MaxFaults \in Nat

VARIABLES
    implementation,     \* each pool's Impl
    description,        \* the description each Impl was created with
    records,            \* the records each Impl owns
    record,             \* each view's record_
    state,              \* each record's state; "none" before, "gone" after its life
    native,             \* Vulkan's own state of the allocation
    usage,              \* the flags of the last native begin
    reply,              \* what the last call returned
    faults              \* failures so far, at most MaxFaults

poolVars == <<implementation, description, records>>
bufferVars == <<state, native, usage>>
lifecycleVars == <<implementation, description, records, record, state, native,
                   usage, reply, faults>>

CommandBufferState == {"initial", "recording", "executable", "invalid"}
NativeState == CommandBufferState \cup {"pending"}

Replies == {"none", "ok", "invalid_parent", "invalid_queue_family", "unsupported_flags",
            "bad_alloc", "native_error", "invalid_native_handle", "invalid_pool",
            "invalid_buffer", "invalid_transition", "reset_not_enabled"}

StateTypeOK ==
    /\ implementation \in [Pools -> Impls \cup {NoImpl}]
    /\ \A i \in Impls : description[i] \in Descriptions \cup {NoImpl}
    /\ DOMAIN description = Impls
    /\ records \in [Impls -> SUBSET Records]
    /\ record \in [Views -> Records \cup {NoRecord}]
    /\ state \in [Records -> CommandBufferState \cup {"none", "gone"}]
    /\ native \in [Records -> NativeState \cup {"none", "gone"}]
    /\ usage \in [Records -> SUBSET BeginFlags]
    /\ faults \in 0..MaxFaults

TypeOK == StateTypeOK /\ reply \in Replies

Init ==
    /\ implementation = [p \in Pools |-> NoImpl]
    /\ description = [i \in Impls |-> NoImpl]
    /\ records = [i \in Impls |-> {}]
    /\ record = [v \in Views |-> NoRecord]
    /\ state = [r \in Records |-> "none"]
    /\ native = [r \in Records |-> "none"]
    /\ usage = [r \in Records |-> {}]
    /\ reply = "none"
    /\ faults = 0

\* A call is refused, or fails, and changes nothing but what it returns.
Returns(error) ==
    /\ reply' = error
    /\ UNCHANGED <<poolVars, record, bufferVars>>

Fault == faults < MaxFaults /\ faults' = faults + 1

Owner(r) == CHOOSE i \in Impls : r \in records[i]
PoolFlagsOf(r) == description[Owner(r)].flags

\* The views that stand on records of i.
ViewsOf(i) == {v \in Views : record[v] \in records[i]}

-----------------------------------------------------------------------------
(* createCommandPool(device, d)                                            *)

\* deviceLive: a moved-from Device is neither valid nor has it a plan.
CreateError(deviceLive, d) ==
    IF ~deviceLive THEN "invalid_parent"
    ELSE IF d.family \notin EnabledFamilies THEN "invalid_queue_family"
    ELSE IF "unknown" \in d.flags THEN "unsupported_flags"
    ELSE IF "protected" \in d.flags
              /\ ~(ProtectedMemory /\ d.family \in ProtectedFamilies)
      THEN "unsupported_flags"
    ELSE "ok"

CreatePoolRejected(p, deviceLive, d) ==
    /\ implementation[p] = NoImpl
    /\ CreateError(deviceLive, d) # "ok"
    /\ Returns(CreateError(deviceLive, d))
    /\ UNCHANGED faults

\* bad_alloc, a failed vkCreateCommandPool, or success with a null handle:
\* nothing native is owned and no pool is returned.
CreatePoolFails(p, d) ==
    /\ implementation[p] = NoImpl
    /\ CreateError(TRUE, d) = "ok"
    /\ Fault
    /\ \E error \in {"bad_alloc", "native_error", "invalid_native_handle"} : Returns(error)

CreatePool(p, d) ==
    /\ implementation[p] = NoImpl
    /\ CreateError(TRUE, d) = "ok"
    /\ \E i \in Impls :
         /\ description[i] = NoImpl
         /\ implementation' = [implementation EXCEPT ![p] = i]
         /\ description' = [description EXCEPT ![i] = d]
    /\ reply' = "ok"
    /\ UNCHANGED <<records, record, bufferVars, faults>>

-----------------------------------------------------------------------------
(* CommandPool: destruction, moves, allocatePrimary(), reset(flags)        *)

\* The contract for destroying or displacing i: no view, no GPU use.
MayDestroy(i) ==
    i # NoImpl => /\ ViewsOf(i) = {}
                  /\ \A r \in records[i] : native[r] # "pending"

\* ~Impl: vkDestroyCommandPool frees every allocation with the records.
Destroyed(i, s) ==
    [r \in Records |-> IF i # NoImpl /\ r \in records[i] THEN "gone" ELSE s[r]]

Unowned(i) == [k \in Impls |-> IF k = i THEN {} ELSE records[k]]

DestroyPool(p) ==
    LET i == implementation[p]
    IN  /\ i # NoImpl
        /\ MayDestroy(i)
        /\ state' = Destroyed(i, state)
        /\ native' = Destroyed(i, native)
        /\ records' = Unowned(i)
        /\ implementation' = [implementation EXCEPT ![p] = NoImpl]
        /\ reply' = "ok"
        /\ UNCHANGED <<description, record, usage, faults>>

\* p = std::move(q): p's allocations are destroyed, q's Impl moves over.
MoveAssignPool(p, q) ==
    LET i == implementation[p]
    IN  /\ p # q
        /\ MayDestroy(i)
        /\ state' = Destroyed(i, state)
        /\ native' = Destroyed(i, native)
        /\ records' = Unowned(i)
        /\ implementation' = [implementation EXCEPT ![p] = implementation[q], ![q] = NoImpl]
        /\ reply' = "ok"
        /\ UNCHANGED <<description, record, usage, faults>>

AllocateRejected(p) ==
    /\ implementation[p] = NoImpl
    /\ Returns("invalid_pool")
    /\ UNCHANGED faults

\* Variant: the native call comes before the reservation.
AllocateOutOfMemoryLate(p) ==
    /\ implementation[p] # NoImpl
    /\ Fault
    /\ \E r \in Records : /\ native[r] = "none"
                          /\ native' = [native EXCEPT ![r] = "initial"]
    /\ reply' = "bad_alloc"
    /\ UNCHANGED <<poolVars, record, state, usage>>

\* bad_alloc in make_unique or reserve, both before the native call.
AllocateOutOfMemory(p) ==
    /\ implementation[p] # NoImpl
    /\ Fault
    /\ Returns("bad_alloc")

\* vkAllocateCommandBuffers fails, or succeeds with a null handle.
AllocateFails(p) ==
    /\ implementation[p] # NoImpl
    /\ Fault
    /\ \E error \in {"native_error", "invalid_native_handle"} : Returns(error)

\* The returned view replaces v, whose old allocation stays with its pool.
Allocate(p, v) ==
    /\ implementation[p] # NoImpl
    /\ \E r \in Records :
         /\ native[r] = "none"
         /\ native' = [native EXCEPT ![r] = "initial"]
         /\ state' = [state EXCEPT ![r] = "initial"]
         /\ records' = [records EXCEPT ![implementation[p]] = @ \cup {r}]
         /\ record' = [record EXCEPT ![v] = r]
    /\ reply' = "ok"
    /\ UNCHANGED <<implementation, description, usage, faults>>

PoolResetError(p, flags) ==
    IF implementation[p] = NoImpl THEN "invalid_pool"
    ELSE IF "unknown" \in flags THEN "unsupported_flags"
    ELSE "ok"

ResetPoolRejected(p, flags) ==
    /\ PoolResetError(p, flags) # "ok"
    /\ Returns(PoolResetError(p, flags))
    /\ UNCHANGED faults

\* No buffer of the pool is executing: the caller's obligation.
Quiescent(p) == \A r \in records[implementation[p]] : native[r] # "pending"

\* Variant: only the records that still have a view are reset.
StateAfterPoolResetViewed(p, s) ==
    [r \in Records |-> IF r \in records[implementation[p]] /\ \E v \in Views : record[v] = r
                         THEN s ELSE state[r]]

\* Every tracked record, recording and abandoned ones included.
StateAfterPoolReset(p, s) ==
    [r \in Records |-> IF r \in records[implementation[p]] THEN s ELSE state[r]]

ResetPool(p, flags) ==
    /\ PoolResetError(p, flags) = "ok"
    /\ Quiescent(p)
    /\ native' = [r \in Records |-> IF r \in records[implementation[p]]
                                      THEN "initial" ELSE native[r]]
    /\ state' = StateAfterPoolReset(p, "initial")
    /\ reply' = "ok"
    /\ UNCHANGED <<poolVars, record, usage, faults>>

\* vkResetCommandPool failed: each buffer was reset or kept its state.
ResetPoolFails(p, flags) ==
    /\ PoolResetError(p, flags) = "ok"
    /\ Quiescent(p)
    /\ Fault
    /\ \E done \in SUBSET records[implementation[p]] :
         native' = [r \in Records |-> IF r \in done THEN "initial" ELSE native[r]]
    /\ state' = StateAfterPoolReset(p, "invalid")
    /\ reply' = "native_error"
    /\ UNCHANGED <<poolVars, record, usage>>

-----------------------------------------------------------------------------
(* CommandBuffer: moves, begin(flags), end(), reset(flags)                 *)

\* Variant: a defaulted move, which copies the raw pointer.
MoveViewDefaulted(v, w) ==
    /\ v # w
    /\ record' = [record EXCEPT ![v] = record[w]]
    /\ reply' = "ok"
    /\ UNCHANGED <<poolVars, bufferVars, faults>>

\* v = std::move(w): v's allocation is abandoned, w is emptied.
MoveView(v, w) ==
    /\ v # w
    /\ record' = [record EXCEPT ![v] = record[w], ![w] = NoRecord]
    /\ reply' = "ok"
    /\ UNCHANGED <<poolVars, bufferVars, faults>>

\* Destruction abandons the view, not the allocation.
DropView(v) ==
    /\ record[v] # NoRecord
    /\ record' = [record EXCEPT ![v] = NoRecord]
    /\ reply' = "ok"
    /\ UNCHANGED <<poolVars, bufferVars, faults>>

\* CommandBuffer::state(): an empty view reports invalid.
StateOf(v) == IF record[v] = NoRecord THEN "invalid" ELSE state[record[v]]

BeginError(v, flags) ==
    IF record[v] = NoRecord THEN "invalid_buffer"
    ELSE IF StateOf(v) # "initial" THEN "invalid_transition"
    ELSE IF flags \notin {{}, {"oneTimeSubmit"}, {"simultaneousUse"}} THEN "unsupported_flags"
    ELSE "ok"

EndError(v) ==
    IF record[v] = NoRecord THEN "invalid_buffer"
    ELSE IF StateOf(v) # "recording" THEN "invalid_transition"
    ELSE "ok"

ResetError(v, flags) ==
    IF record[v] = NoRecord THEN "invalid_buffer"
    ELSE IF StateOf(v) = "recording" THEN "invalid_transition"
    ELSE IF "resetCommandBuffer" \notin PoolFlagsOf(record[v]) THEN "reset_not_enabled"
    ELSE IF "unknown" \in flags THEN "unsupported_flags"
    ELSE "ok"

BufferCallRejected(v) ==
    /\ \E error \in {BeginError(v, f) : f \in SUBSET BeginFlags} \cup {EndError(v)}
                    \cup {ResetError(v, f) : f \in SUBSET ResetFlags} :
         error # "ok" /\ Returns(error)
    /\ UNCHANGED faults

\* A native call on v's buffer succeeds: Vulkan and the record move to s.
Moves(v, s) ==
    /\ native' = [native EXCEPT ![record[v]] = s]
    /\ state' = [state EXCEPT ![record[v]] = s]
    /\ reply' = "ok"
    /\ UNCHANGED <<poolVars, record, faults>>

\* A failed native call marks the record invalid.
StateAfterFailure(v) == [state EXCEPT ![record[v]] = "invalid"]

\* It fails: Vulkan leaves the buffer in one of outcomes.
Fails(v, outcomes) ==
    /\ Fault
    /\ \E s \in outcomes : native' = [native EXCEPT ![record[v]] = s]
    /\ state' = StateAfterFailure(v)
    /\ reply' = "native_error"
    /\ UNCHANGED <<poolVars, record, usage>>

Begin(v, flags) ==
    /\ BeginError(v, flags) = "ok"
    /\ \/ Moves(v, "recording") /\ usage' = [usage EXCEPT ![record[v]] = flags]
       \/ Fails(v, {"initial", "invalid"})

End(v) ==
    /\ EndError(v) = "ok"
    /\ \/ Moves(v, "executable") /\ UNCHANGED usage
       \/ Fails(v, {"invalid"})

\* The caller has established that the GPU is done with the buffer.
ResetBuffer(v, flags) ==
    /\ ResetError(v, flags) = "ok"
    /\ native[record[v]] # "pending"
    /\ \/ Moves(v, "initial") /\ UNCHANGED usage
       \/ Fails(v, {native[record[v]], "initial", "invalid"})

LifecycleNext ==
    \/ \E p \in Pools :
         \/ \E d \in Descriptions :
              \/ \E deviceLive \in BOOLEAN : CreatePoolRejected(p, deviceLive, d)
              \/ CreatePoolFails(p, d)
              \/ CreatePool(p, d)
         \/ DestroyPool(p)
         \/ \E q \in Pools : MoveAssignPool(p, q)
         \/ AllocateRejected(p)
         \/ AllocateOutOfMemory(p)
         \/ AllocateFails(p)
         \/ \E v \in Views : Allocate(p, v)
         \/ \E flags \in SUBSET ResetFlags :
              ResetPoolRejected(p, flags) \/ ResetPool(p, flags) \/ ResetPoolFails(p, flags)
    \/ \E v \in Views :
         \/ \E w \in Views : MoveView(v, w)
         \/ DropView(v)
         \/ BufferCallRejected(v)
         \/ \E flags \in SUBSET BeginFlags : Begin(v, flags)
         \/ End(v)
         \/ \E flags \in SUBSET ResetFlags : ResetBuffer(v, flags)

LifecycleSpec == Init /\ [][LifecycleNext]_lifecycleVars

-----------------------------------------------------------------------------
(* Properties                                                              *)

(* What a record says of its buffer is what Vulkan would say, as far as the *)
(* CPU can know: a buffer tracked as initial or recording is exactly that,  *)
(* one tracked as executable was recorded to its end since its last reset   *)
(* and at most has been submitted since.  Holds through failed native       *)
(* calls, pool resets and abandoned views.                                  *)
TrackingAgrees ==
    \A r \in Records :
        /\ state[r] \in {"initial", "recording", "none", "gone"} => native[r] = state[r]
        /\ state[r] = "executable" =>
             \/ native[r] \in {"executable", "pending"}
             \/ native[r] = "invalid" /\ "oneTimeSubmit" \in usage[r]

(* Every native allocation is owned by exactly one live pool, whatever      *)
(* failed on the way and whichever views were abandoned: none is stranded   *)
(* and none would be freed twice.                                           *)
EveryAllocationOwned ==
    /\ \A r \in Records :
         native[r] \notin {"none", "gone"} <=>
             \E p \in Pools : implementation[p] # NoImpl /\ r \in records[implementation[p]]
    /\ \A i, k \in Impls : i # k => records[i] \cap records[k] = {}
    /\ \A p, q \in Pools : p # q /\ implementation[p] = implementation[q]
                             => implementation[p] = NoImpl

(* No two views record into one buffer, and a view that is not empty stands *)
(* on a record of a pool that is still there.                               *)
ViewsAreExclusive ==
    /\ \A v, w \in Views : v # w /\ record[v] = record[w] => record[v] = NoRecord
    /\ \A v \in Views : record[v] # NoRecord => state[record[v]] \in CommandBufferState
=============================================================================

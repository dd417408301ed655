----------------------------- MODULE Submission -----------------------------
(***************************************************************************)
(* graphics/submission.{hpp,cpp}: submit(), which validates one batch      *)
(* against the Device, the Queue, the command buffers' records, the        *)
(* semaphores and the completion the caller wants to observe, and then     *)
(* issues one vkQueueSubmit2; and the receipt it returns, whose poll() and *)
(* wait() are one native query each; graphics/completion.hpp: the          *)
(* Completion the application makes of an observation and may keep.  It    *)
(* composes the pools and buffers of CommandLifecycle with the queues of   *)
(* the GPU.                                                                *)
(*                                                                         *)
(* External: the GPU starts the batches of a queue in order once their     *)
(* waits are met, may signal a semaphore before the batch ends when the    *)
(* signal's stage mask is narrow, and ends the batches of a queue in order.*)
(* The application keeps Vulkan's rules where the library says they are    *)
(* its own: fences and binary semaphores are unused when a batch names     *)
(* them, timeline values grow, and a buffer is not submitted again while   *)
(* it executes or after its one-time use.  A fence may be reset and used   *)
(* again: the receipts that observe its earlier use are void from then on, *)
(* and are not queried.                                                    *)
(***************************************************************************)
EXTENDS CommandLifecycle, Sequences, Functions

CONSTANTS
    Devices,            \* Device wrappers an application may name
    LiveDevices,        \* those that are not moved-from
    PoolDevice,         \* the Device the pools were created on
    Queues,             \* Queue views
    NoQueue,            \* the invalid Queue view
    QueueOf,            \* each queue's [device, family]
    Synchronization2,   \* is synchronization2 enabled?
    TimelineSemaphore,  \* is timelineSemaphore enabled?
    Fences, NoFence,
    Timelines, Binaries, NoSemaphore,
    Batches,            \* identities of native submissions
    Submittable         \* SubmissionDescriptions, without their buffers

\* A SubmissionSemaphore: its declared kind, its native structure, and the
\* stages its operation covers: "all" or "early" ones only.
Semaphore == [semaphore : Timelines \cup Binaries \cup {NoSemaphore},
              kind : {"binary", "timeline", "unknown"}, value : Nat,
              stage : {"all", "early"}, plain : BOOLEAN]

Condition == [kind : {"none", "fence", "timeline"},
              object : Fences \cup Timelines \cup {NoFence, NoSemaphore}, value : Nat]

ASSUME SubmissionAssumption ==
    /\ LiveDevices \subseteq Devices
    /\ PoolDevice \in LiveDevices
    /\ NoQueue \notin Queues /\ NoFence \notin Fences
    /\ NoSemaphore \notin Timelines \cup Binaries
    /\ Timelines \cap Binaries = {}
    /\ (Fences \cup {NoFence}) \cap (Timelines \cup Binaries \cup {NoSemaphore}) = {}
    /\ \A q \in Queues : QueueOf[q].device \in LiveDevices
    /\ Synchronization2 \in BOOLEAN /\ TimelineSemaphore \in BOOLEAN
    /\ \A d \in Submittable :
         /\ d.waits \in Seq(Semaphore) /\ d.signals \in Seq(Semaphore)
         /\ d.fence \in Fences \cup {NoFence}
         /\ d.condition \in Condition
         /\ d.queue \in Queues \cup {NoQueue} /\ d.completionQueue \in Queues \cup {NoQueue}
         /\ d.device \in Devices /\ d.completionDevice \in Devices

VARIABLES
    batch,          \* each accepted batch: its description and its buffers
    progress,       \* GPU: "none", "queued", "running", "early" or "done"
    order,          \* GPU: the batches in submission order
    counter,        \* GPU: the value of each timeline
    raised,         \* GPU: fences and binary semaphores that are signaled
    void,           \* batches whose fence was reset since
    reported        \* batches of which the application keeps a Completion that says
                    \* completed (a bound: those with other outcomes are not kept)

gpuVars == <<batch, progress, order, counter, raised, void, reported>>
vars == <<lifecycleVars, gpuVars>>

NoBatch == "none"
Accepted == {b \in Batches : progress[b] # "none"}

SubmissionInit ==
    /\ Init
    /\ batch = [b \in Batches |-> NoBatch]
    /\ progress = [b \in Batches |-> "none"]
    /\ order = <<>>
    /\ counter = [t \in Timelines |-> 0]
    /\ raised = {}
    /\ void = {}
    /\ reported = {}

-----------------------------------------------------------------------------
(* submit(device, queue, description): validation, in the code's order     *)

\* The first refusal among the results of consecutive checks.
FirstError(results) ==
    IF \A k \in DOMAIN results : results[k] = "ok" THEN "ok"
    ELSE results[CHOOSE k \in DOMAIN results :
                   /\ results[k] # "ok"
                   /\ \A m \in DOMAIN results : m < k => results[m] = "ok"]

\* A check that refuses with error when bad holds.
Check(bad, error) == IF bad THEN error ELSE "ok"

\* validateCompletion
CompletionError(d) == FirstError(<<
    Check(d.completionDevice \notin LiveDevices, "invalid_device"),
    Check(d.completionQueue = NoQueue, "invalid_queue"),
    Check(d.completionQueue # NoQueue
            /\ QueueOf[d.completionQueue].device # d.completionDevice, "parent_mismatch"),
    Check(~d.identified, "invalid_completion"),
    Check(d.condition.kind = "timeline" /\ ~TimelineSemaphore, "timeline_not_enabled"),
    Check(d.condition.object \in {NoFence, NoSemaphore}, "invalid_completion")>>)

EndpointError(d, vs) == FirstError(<<
    Check(d.device \notin LiveDevices, "invalid_device"),
    Check(d.queue = NoQueue, "invalid_queue"),
    Check(d.queue # NoQueue /\ QueueOf[d.queue].device # d.device, "parent_mismatch"),
    Check(~Synchronization2, "synchronization2_not_enabled"),
    Check(vs = <<>>, "invalid_batch"),
    Check(d.completionDevice # d.device \/ d.completionQueue # d.queue, "invalid_completion"),
    CompletionError(d)>>)

\* Variant: a view that is not empty is good enough.
BufferErrorAnyState(d, v) == FirstError(<<
    Check(record[v] = NoRecord, "invalid_buffer"),
    Check(PoolDevice # d.device, "parent_mismatch")>>)

\* One buffer of the batch: executable, of this device and family, unprotected.
BufferError(d, v) ==
    IF StateOf(v) # "executable" THEN "invalid_buffer"
    ELSE LET pool == description[Owner(record[v])]
         IN  FirstError(<<
                 Check(PoolDevice # d.device, "parent_mismatch"),
                 Check(pool.family # QueueOf[d.queue].family, "family_mismatch"),
                 Check("protected" \in pool.flags, "protected_allocation")>>)

BuffersError(d, vs) == FirstError([k \in DOMAIN vs |-> BufferError(d, vs[k])])

\* convert: one semaphore operation.
SemaphoreError(s) == FirstError(<<
    Check(~s.plain, "invalid_native_structure"),
    Check(s.semaphore = NoSemaphore \/ s.kind = "unknown"
            \/ (s.kind = "binary" /\ s.value # 0), "invalid_semaphore"),
    Check(s.kind = "timeline" /\ ~TimelineSemaphore, "timeline_not_enabled")>>)

SemaphoresError(list) == FirstError([k \in DOMAIN list |-> SemaphoreError(list[k])])

Duplicates(list) ==
    \E k, m \in DOMAIN list : k # m /\ list[k].semaphore = list[m].semaphore

\* A wait and a signal of the batch on one semaphore that contradict each other.
Contradictory(wait, signal) ==
    /\ wait.semaphore = signal.semaphore
    /\ \/ wait.kind # signal.kind
       \/ wait.kind = "timeline" /\ signal.value <= wait.value

RelationError(d) ==
    Check(\/ Duplicates(d.waits) \/ Duplicates(d.signals)
          \/ \E w \in Range(d.waits), s \in Range(d.signals) : Contradictory(w, s),
          "invalid_semaphore")

\* Variant: the stages of the signal are not looked at.
BoundAtAnyStage(s, condition) ==
    s.kind = "timeline" /\ s.semaphore = condition.object /\ s.value = condition.value

\* The signal a timeline condition observes.
Bound(s, condition) ==
    /\ s.kind = "timeline" /\ s.semaphore = condition.object
    /\ s.value = condition.value /\ s.stage = "all"

BindingError(d) ==
    Check(IF d.condition.kind = "fence"
            THEN d.condition.object # d.fence
            ELSE ~\E s \in Range(d.signals) : Bound(s, d.condition),
          "invalid_completion")

SubmitError(d, vs) ==
    LET endpoint == EndpointError(d, vs)
    IN  IF endpoint # "ok" THEN endpoint
        ELSE FirstError(<<BuffersError(d, vs), SemaphoresError(d.waits),
                          SemaphoresError(d.signals), RelationError(d), BindingError(d)>>)

-----------------------------------------------------------------------------
(* What Vulkan and the library leave to the application                    *)

Pending(b) == progress[b] \in {"queued", "running", "early"}

\* Has batch b, on its way through the GPU, performed its signal s?
Fired(b, s) == progress[b] = "done" \/ (progress[b] = "early" /\ s.stage = "early")

Signals(b) == Range(batch[b].description.signals)
Waits(b) == Range(batch[b].description.waits)

\* The fence is unsignaled and no pending batch will signal it; the same for
\* binary semaphores; binary waits have one signal each to wait for; timeline
\* values exceed all that was signaled or is going to be.
SynchronizationUnused(d) ==
    /\ d.fence # NoFence =>
         /\ d.fence \notin raised
         /\ \A b \in Accepted : Pending(b) => batch[b].description.fence # d.fence
    /\ \A s \in Range(d.signals) :
         /\ s.semaphore \in Binaries =>
              /\ s.kind = "binary"
              /\ s.semaphore \notin raised
              /\ \A b \in Accepted : Pending(b) =>
                   \A t \in Signals(b) \cup Waits(b) : t.semaphore # s.semaphore
         /\ s.semaphore \in Timelines =>
              /\ s.kind = "timeline"
              /\ s.value > counter[s.semaphore]
              /\ \A b \in Accepted : \A t \in Signals(b) :
                   t.semaphore = s.semaphore => t.value < s.value
    /\ \A w \in Range(d.waits) :
         /\ (w.semaphore \in Binaries) = (w.kind = "binary")
         /\ w.semaphore \in Binaries =>
              /\ \A b \in Accepted : Pending(b) => \A t \in Waits(b) : t.semaphore # w.semaphore
              /\ \/ w.semaphore \in raised
                 \/ \E b \in Accepted : /\ Pending(b)
                                        /\ \E t \in Signals(b) : t.semaphore = w.semaphore

\* No buffer twice in the batch; none that executes, unless it may be used
\* simultaneously; none whose one-time use is over.
BuffersReusable(vs) ==
    /\ \A k, m \in DOMAIN vs : k # m => vs[k] # vs[m]
    /\ \A v \in Range(vs) :
         LET r == record[v]
         IN  r # NoRecord => /\ native[r] = "pending" => usage[r] = {"simultaneousUse"}
                             /\ "oneTimeSubmit" \in usage[r] => native[r] # "invalid"

-----------------------------------------------------------------------------
(* submit(), poll() and wait()                                             *)

BufferLists == {<<>>} \cup {<<v>> : v \in Views} \cup {<<v, w>> : v, w \in Views}

\* A refusal changes nothing but what is returned.
SubmitRejected ==
    /\ \E error \in {SubmitError(d, vs) : d \in Submittable, vs \in BufferLists} :
         error # "ok" /\ reply' = error
    /\ UNCHANGED <<poolVars, record, bufferVars, faults, gpuVars>>

\* vkQueueSubmit2 fails: no receipt, nothing is queued.
SubmitFails(d, vs) ==
    /\ Fault
    /\ SubmitError(d, vs) = "ok"
    /\ BuffersReusable(vs) /\ SynchronizationUnused(d)
    /\ reply' = "native_error"
    /\ UNCHANGED <<poolVars, record, bufferVars, gpuVars>>

\* vkQueueSubmit2 succeeds.  The buffers' tracked states stay executable.
Submit(d, vs) ==
    /\ SubmitError(d, vs) = "ok"
    /\ BuffersReusable(vs) /\ SynchronizationUnused(d)
    /\ \E b \in Batches \ Accepted :
         /\ batch' = [batch EXCEPT ![b] = [description |-> d,
                                          buffers |-> {record[v] : v \in Range(vs)}]]
         /\ progress' = [progress EXCEPT ![b] = "queued"]
         /\ order' = Append(order, b)
    /\ native' = [r \in Records |-> IF r \in {record[v] : v \in Range(vs)}
                                      THEN "pending" ELSE native[r]]
    /\ reply' = "ok"
    /\ UNCHANGED <<poolVars, record, state, usage, faults, counter, raised, void, reported>>

\* What the native query of b's condition finds.
Signalled(b) ==
    LET condition == batch[b].description.condition
    IN  IF condition.kind = "fence" THEN condition.object \in raised
                                    ELSE counter[condition.object] >= condition.value

\* Variant: a wait that ran out of time is taken for one that ended.
ObservationTimeoutCompletes(b, waiting) ==
    IF Signalled(b) \/ waiting THEN "completed" ELSE "pending"

\* observation: poll() and wait() tell a signalled condition from one that is
\* not yet; wait() reports the latter as a timeout.
Observation(b, waiting) ==
    IF Signalled(b) THEN "completed" ELSE IF waiting THEN "timeout" ELSE "pending"

\* The native result in a SubmissionObservation; a timeline's counter was read.
NativeResult(b, seen) ==
    IF seen = "completed" \/ (seen = "pending" /\ batch[b].description.condition.kind = "timeline")
    THEN "success"
    ELSE IF seen = "pending" THEN "not_ready" ELSE seen

\* Completion::observeNative: the native results an outcome agrees with.
Agreeing(outcome) ==
    CASE outcome = "unavailable" -> {}
      [] outcome = "pending" -> {"not_ready", "timeout"}
      [] outcome = "completed" -> {"success"}
      [] outcome \in {"submit_failed", "native_error"} -> {"error"}
      [] outcome = "device_lost" -> {"device_lost"}

Outcome(seen) == IF seen = "timeout" THEN "pending" ELSE seen

\* The receipt's completion is valid, so only outcome and result are in question;
\* a result that was not passed on contradicts nothing.
TokenError(outcome, result) ==
    Check(result # "not passed" /\ result \notin Agreeing(outcome), "invalid_outcome")

\* The application may make a Completion of what a query of b found.
Report(b, outcome, result) ==
    \/ UNCHANGED reported
    \/ /\ \E passed \in {result, "not passed"} : TokenError(outcome, passed) = "ok"
       /\ outcome = "completed"
       /\ reported' = reported \cup {b}

\* One native query, which may fail.
Observe(b, waiting) ==
    LET seen == Observation(b, waiting)
    IN  /\ b \in Accepted \ void
        /\ \/ reply' = seen /\ UNCHANGED faults /\ Report(b, Outcome(seen), NativeResult(b, seen))
           \/ reply' = "native_error" /\ Fault /\ Report(b, "native_error", "error")
        /\ UNCHANGED <<poolVars, record, bufferVars, batch, progress, order, counter, raised, void>>

\* SubmissionReceipt::initialCompletion
InitialCompletion(b) ==
    /\ b \in Accepted
    /\ reply' = IF TokenError("unavailable", "not passed") = "ok" THEN "unavailable" ELSE "empty"
    /\ UNCHANGED <<poolVars, record, bufferVars, faults, gpuVars>>

\* The application resets a fence no batch is going to signal.
ResetFence(f) ==
    /\ f \in raised
    /\ \A b \in Accepted : Pending(b) => batch[b].description.fence # f
    /\ raised' = raised \ {f}
    /\ void' = void \cup {b \in Accepted : batch[b].description.condition.object = f}
    /\ UNCHANGED <<lifecycleVars, batch, progress, order, counter, reported>>

-----------------------------------------------------------------------------
(* External: the queues of the GPU                                         *)

QueueOfBatch(b) == batch[b].description.queue

\* The batches submitted before b to the same queue.
Before(b) ==
    {c \in Accepted : /\ QueueOfBatch(c) = QueueOfBatch(b)
                      /\ \E k, m \in DOMAIN order : k < m /\ order[k] = c /\ order[m] = b}

\* The operations in ops, all of batch b, take effect: timelines only grow.
Fire(ops, fences) ==
    /\ counter' = [t \in Timelines |->
                      IF \E s \in ops : s.semaphore = t
                        THEN (CHOOSE s \in ops : s.semaphore = t).value
                        ELSE counter[t]]
    /\ raised' = raised \cup fences \cup {s.semaphore : s \in {x \in ops : x.kind = "binary"}}

\* Vulkan's rule for timelines: no smaller value is still to be signaled.
InTurn(b, ops) ==
    \A s \in ops, c \in Accepted : \A t \in Signals(c) :
        /\ s.kind = "timeline" /\ t.semaphore = s.semaphore
        /\ ~Fired(c, t)
        => t.value >= s.value

Start(b) ==
    /\ progress[b] = "queued"
    /\ \A c \in Before(b) : progress[c] # "queued"
    /\ \A w \in Waits(b) : IF w.kind = "binary" THEN w.semaphore \in raised
                                                ELSE counter[w.semaphore] >= w.value
    /\ progress' = [progress EXCEPT ![b] = "running"]
    /\ raised' = raised \ {w.semaphore : w \in Waits(b)}
    /\ UNCHANGED <<lifecycleVars, batch, order, counter, void, reported>>

EarlyStages(b) ==
    LET ops == {s \in Signals(b) : s.stage = "early"}
    IN  /\ progress[b] = "running"
        /\ \A c \in Before(b) : progress[c] \in {"early", "done"}
        /\ InTurn(b, ops)
        /\ Fire(ops, {})
        /\ progress' = [progress EXCEPT ![b] = "early"]
        /\ UNCHANGED <<lifecycleVars, batch, order, void, reported>>

Finish(b) ==
    LET ops == {s \in Signals(b) : s.stage = "all"}
        used == {r \in batch[b].buffers :
                   \A c \in Accepted \ {b} : Pending(c) => r \notin batch[c].buffers}
    IN  /\ progress[b] = "early"
        /\ \A c \in Before(b) : progress[c] = "done"
        /\ InTurn(b, ops)
        /\ Fire(ops, {batch[b].description.fence} \ {NoFence})
        /\ progress' = [progress EXCEPT ![b] = "done"]
        /\ native' = [r \in Records |->
                         IF r \notin used THEN native[r]
                         ELSE IF "oneTimeSubmit" \in usage[r] THEN "invalid" ELSE "executable"]
        /\ UNCHANGED <<poolVars, record, state, usage, reply, faults, batch, order, void, reported>>

Next ==
    \/ LifecycleNext /\ UNCHANGED gpuVars
    \/ SubmitRejected
    \/ \E d \in Submittable, vs \in BufferLists : SubmitFails(d, vs) \/ Submit(d, vs)
    \/ \E b \in Batches, waiting \in BOOLEAN : Observe(b, waiting)
    \/ \E b \in Batches : InitialCompletion(b)
    \/ \E f \in Fences : ResetFence(f)
    \/ \E b \in Batches : Start(b) \/ EarlyStages(b) \/ Finish(b)

Spec == SubmissionInit /\ [][Next]_vars

-----------------------------------------------------------------------------
(* Properties                                                              *)

(* A receipt that is not void tells the truth about its own batch: the fence *)
(* or the timeline value it observes is signalled exactly when the whole     *)
(* batch has executed, whatever other batches signal the same timeline or    *)
(* used the same fence before, and whichever narrower signals the batch      *)
(* itself performs earlier.                                                  *)
ReceiptFollowsItsBatch == \A b \in Accepted \ void : Signalled(b) <=> progress[b] = "done"

(* A Completion that the application keeps stays true when its fence serves  *)
(* other work: "completed" is only ever said of a batch that has executed,   *)
(* for its identity is the batch and not the fence (completion.hpp:13-15).   *)
CompletionsStayTrue == \A b \in reported : progress[b] = "done"

(* Every buffer that reaches vkQueueSubmit2 is one Vulkan accepts there:    *)
(* recorded to its end on this Device, for this queue's family, and not     *)
(* protected.  submit() knows only the wrappers' records.                   *)
SubmittedBuffersAreExecutable ==
    [][\A b \in Batches : progress[b] = "none" /\ progress'[b] = "queued" =>
         \A r \in batch'[b].buffers :
             /\ native[r] = "executable" \/ (native[r] = "pending" /\ usage[r] = {"simultaneousUse"})
             /\ description[Owner(r)].family = QueueOf[QueueOfBatch(b)'].family
             /\ "protected" \notin description[Owner(r)].flags]_vars
=============================================================================

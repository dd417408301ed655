# Terreate: TLA+ models, checks and proofs

Terreate is a C++23 library for Vulkan applications. Its graphics module (`modules/graphics/`)
resolves instances, physical devices and queues from declarative descriptions, and then offers thin
move-only wrappers: allocator, buffers, images, command pools and buffers, submissions with
receipts, a retirement queue, and upload and readback batches. The library starts no thread; its one callback,
of Debug Utils, is called by native code. What makes it hard is that

* the **GPU** runs concurrently with every call, completes batches and loses the device at any moment;
* almost every operation is a **sequence of fallible steps** (allocation, native call, map, flush,
  unmap, record), and the contract of most operations says what is left after each failure;
* wrappers **borrow** each other by address or handle and may be moved, destroyed and created again
  between two calls that name them;
* the queue resolver is a **bounded backtracking search** whose answer must not depend on the order
  in which it finds things.

Paths below are relative to `modules/graphics/` (`src/x.cpp` is `modules/graphics/src/x.cpp`), those of docs to
the repository root; in `PROJECT.json` a first `src/` stands for that root.

## 1. Inventory

| Component | State it keeps | Operations | Talks to | What is hard, what must hold |
|---|---|---|---|---|
| RetirementQueue (`retirement.*`) | `entries_`, `device_`, `lost_` | `retire`, `collect`, `reclaimAfterDeviceLoss`, `requireEmpty`, destructor | receipts (polls), Device address | GPU progresses between polls; erasure shifts entries; nothing is destroyed while a use is pending; a failed `collect` destroys nothing |
| CommandPool, CommandBuffer (`command_pool.*`, `command_buffer.*`) | native pool, one `Record` per allocation with a CPU-observed state; a view borrows a record | create, `allocatePrimary`, `reset`, moves, destruction; `begin`, `end`, `reset` | Device and its plan | failed native calls leave Vulkan's state unknown; abandoned views; records must never claim more than Vulkan does; no allocation is stranded or freed twice |
| Submission, receipts, completion (`submission.*`, `completion.hpp`) | none of its own; a receipt borrows Device and completion condition | `submit`, `poll`, `wait` | Device, Queue, CommandBuffer, fences, timelines | a receipt must report the completion of its own batch and no other; early stage signals; cross-queue waits |
| DevicePlan resolution, Device (`device.*`) | a plan: enabled features and extensions, per native queue its callers; a Device: its native device, its plan, its queue views | `resolveDevice` (features, extensions, queues), `createDevice`, `Device::queue`, moves, destruction | capability snapshot, Instance by address | search budget, undo on backtracking, incomparable preferences, alias chains and rings; parents compared by reusable addresses; priorities of all families in one shared array |
| Buffer, Image (`buffer.*`, `image.*`) | VMA allocation and native handle in an `Impl`; Buffer also the `mapping` flag | create, `map`, `unmap`, `flush`, `invalidate`, moves, destruction | Allocator | ownership through moves, balanced mappings, 64-bit ranges |
| TransferCommands (`transfer_commands.*`) | none | `recordBarriers`, `recordCopyBuffer`, `recordCopyBufferToImage`, `recordCopyImageToBuffer`, `recordCopyImage` | CommandBuffer | geometry of regions at a limit |
| UploadBatch (`upload_batch.*`) | staging Buffer, prepared entries with borrowed wrappers and expected handles | `prepareUploadBatch`, `recordUploadBatch` | Buffer, Image, TransferCommands | five fallible steps on staging; wrappers replaced between prepare and record; all or nothing recorded |
| ReadbackBatch (`readback_batch.*`) | staging Buffer, prepared entries | `prepareReadbackBatch`, `recordReadbackBatch`, `tryCopyCompletedReadbackBatch` | the same, and receipts | poll order against the GPU; retry after any failure; never bytes the GPU may still write |
| Instance (`instance*`) | a plan; an Impl with loader context, callback state, native instance and messenger | `queryInstanceCapabilities`, `resolveInstance`, `createInstance`, moves, destruction | loader, diagnostics, PhysicalDevice | requirements merged name by name must not depend on order; five fallible steps; the order of destruction while native code may still call back |
| PhysicalDevice selection (`physical_device.*`) | snapshots of the native devices, a selection record | `queryPhysicalDevices`, `evaluatePhysicalDevice`, `selectPhysicalDevice` | Instance plan, native queries | which structures may be chained; zeroed fields that were never observed; ties are ambiguous, never settled by order |
| Allocator (`allocator.*`) | one `VmaAllocator`, parents by handle | create, `budgets`, `statistics`, moves, destruction | Instance, candidate, Device | three borrowed parents that must belong together; flags promise what was enabled, not what is supported |
| ImageView (`image_view.*`) | one native handle, those of its Image and device | create, `correlatedWith`, moves, destruction | Device, Image | ranges with "all remaining" and counts near the largest; identity by a handle that is reused |
| Sampler (`sampler.*`) | one native handle | create, moves | Device | independent limits on its fields |
| Diagnostics (`graphics_diagnostics.*`) | none; a sink is borrowed | translate a native message | Instance, sink | messages with unknown bits are passed on whole or not at all |
| Core (`src/core`) | value types | `Result`, `Error`, `DiagnosticSinkView` | all | none |
| Platform, main, build, tests | none | - | - | none |

## 2. Modules

Every module has one action per operation or, where something else can happen in between, one per
native call. `reply` (or `outcome`) is what the last call returned; a refused call is an action that
changes nothing else. Operators named `...Error` are the chains of early returns in the order of the
code. Definitions marked *Variant* are plausible wrong versions of the operator after them; the
`mutants` of `PROJECT.json` put them in its place to see that a property notices.

```
RetirementContract  <=implements=  Retirement  <-  RetirementProofs (TLAPS)
CommandLifecycle    <-  Submission                (submission acts on pools, records and views)
                    Submission  <-  SubmissionProofs (TLAPS, of both)
InstanceCreation    <-  InstanceProofs (TLAPS)
QueueResolution     <-  QueueProofs (TLAPS)
                    (its guarantees are the choices DeviceCreation starts from)
DeviceCreation      <-  Allocator
Allocator, PhysicalSelection  <-  CreationProofs (TLAPS)
Resources           <-  TransferCommands  <-  UploadBatch,    ReadbackBatch
                    <-  ImageView
ImageView, TransferCommands  <-  ResourcesProofs (TLAPS)
ResourcesProofs, UploadBatch  <-  UploadProofs (TLAPS)
ResourcesProofs, ReadbackBatch  <-  ReadbackProofs (TLAPS)
```

(`<-` reads "is extended by".)
A module that is checked has an `MC...` module with the finite values and one or two `.cfg` files.
`DeviceCreation` and `Resources` are checked as parts of `MCAllocator` and `MCImageView`, whose
next-state relations contain theirs (`ParentStep`).

### Retirement (src/retirement.cpp, `SubmissionReceipt::poll`)

| Code | Model |
|---|---|
| `entries_`, `device_`, `lost_` | `entries`, `device`, `lost` |
| `retire()`: validation loop, two allocations, push | `RetireRejected`, `RetireOutOfMemory`, `Retire` |
| `collect()`: the loop over entries and receipts, `vector<bool> ready`, the erase loop | `CollectBegin`, `CollectPoll` (one native query each), `CollectPolled`, `CollectRelease` (one `erase` each), `CollectReturns`; cursors `at`, `term`, `all`, `ready` |
| `reclaimAfterDeviceLoss`, `requireEmpty`, `~RetirementQueue` | `Reclaim`, `ReclaimRejected`, `RequireEmpty`, `DestroyQueue` |
| GPU, `Device` wrappers | `Complete`, `LoseDevice`, `MoveDevice` (external) |

`RetirementContract` is what a user of the queue may rely on: owners go into the queue with a set of
uses, leave one at a time once all uses are out of the way, or all at once after an observed loss.
`Retirement` is shown to implement it under the mapping `place <- where, coverage <- declared,
finished <- completed batches, lostDevices <- deviceLost, latched <- lost`.

### CommandLifecycle and Submission

`CommandLifecycle` keeps, beside the state a record tracks, the state Vulkan keeps (`native`), which
the code cannot query. A failed native call moves `native` to any state Vulkan allows and the record
to `invalid`. Pools own `Impl`s, `Impl`s own records, views borrow records by raw pointer.

`Submission` extends it with `submit()`: `SubmissionError` is the validation chain, `Submit` the
accepted `vkQueueSubmit2`. The GPU (`Start`, `EarlyStages`, `Finish`) starts batches of a queue in
order when their waits are met, may fire a signal of a narrow stage mask before the batch has ended,
and ends batches in order. `Observe` is `poll()`/`wait()`, after which the application may make a
`Completion` of what it saw (`Completion::observeNative` is `TokenError` and `Report`; `reported` holds the
batches of which a token says completed). `ResetFence` is the application's `vkResetFences`: from then on
the fence belongs to another batch, the receipts it served are `void` and asking them would break
submission.hpp:58, but the tokens made before must go on being true.

### QueueResolution (src/device.cpp, `resolve_queues` and its helpers)

Phases `input`, `relations` (the recursive visit that orders alias targets first, as an explicit
stack), `search` (depth-first: one action per visited option, with the undo of `used` on the way
back), `compare` (dominance, ties, displaced optional requests) and `done`. The work budget and the
bound on retained allocations are charged where the code charges them; exhausting either is the
outcome `limit`. Caller ids are naturals in string order.

The acceptance of optional requests is compared with respect to native coordinates, and coordinates
are handed out in canonical id order (device.cpp:848-855). Renumbering may therefore count as
displacement; `docs/architecture/logical-device.md:96-97` describes it so, and `AmbiguityIsGenuine` states exactly
that reading (`Displaces`).

### Resources, TransferCommands, UploadBatch, ReadbackBatch

`Resources` has the wrappers of Buffer and Image over native handles that are **reused**: a destroyed
object's handle may be given to the next one, which is what identity checks by handle have to cope
with. `TransferCommands` has the geometry of regions and the recorders that the batches use.
Both batches run `prepare` one item and one staging call at a time (`PrepareBegins`, `PrepareBuffer`,
`PrepareImage`, `CreateStaging` and, of an upload, `MapStaging` to `PublishBatch`; of a readback, `PrepareInspects`), and
validate all entries before they record any (`CopyEntryError`, `ImageEntryError`, in the order `FirstError` picks). `ReadbackBatch` runs
`tryCopyCompleted` one receipt at a time against a running GPU, whose writes are not atomic: while a
submission runs, the bytes it writes are `Undefined`.

A byte is a value that says which item it belongs to and which place in it, so that a byte in the wrong
place is visible. Between the batch's own recordings the application records barriers and image copies
(`RecordOwn`, with the two recorders no batch uses), into the same command buffer. `MaxSize` stands for the largest `vk::DeviceSize`: the code compares by subtraction
everywhere (`size <= MaxSize - staging_bytes`), and so does the model.

### PhysicalSelection (src/physical_device.cpp, src/physical_device_query.hpp)

`Observe` is one turn of the loop of `queryPhysicalDevices()`: the snapshot of one native device, with
the structures that the versions and extensions of Instance and device allow to be chained
(`Availability`), and zeroes where nothing was queried. `Select` is `selectPhysicalDevice()` over any
span of candidates, in any order and with repetitions, as the interface allows.

### DeviceCreation (src/device.cpp)

`Resolve` is everything `resolveDevice()` does but the search for queues, whose result is any member of
`QueueChoices`: requests share a queue only at one priority, all required ones are served, and the
queues used of a family are its first ones. That is what `PlanIsNative` checks
of the resolver itself, so the two modules meet at this property. A plan is a value that is copied,
moved from (`MovedFrom` keeps what a move of the struct keeps) and applied any number of times;
`createDevice()` compares its parent with the Instance by address, and addresses of implementations
are reused here as an allocator reuses them. `Queue` and `Correlated` are observers and therefore
operators. A call that fails before anything changes is a step that changes nothing; a failure
after `vkCreateDevice()` is `CreateUnwinds`. Plans are resolved only while a device can still be
created (`MaxDevices`), and of a native device that is gone only the fact is kept.

### Allocator (src/allocator.cpp)

`Allocator` extends `DeviceCreation`: an allocator is made from an Instance, a candidate and a Device, in
whatever state the rest of the application has brought them to. `ParentMismatch` and
`UnsupportedVersion` look at the plans that Instance and Device carry, `Evidenced` is the list of what each flag
needs. The plan of a native instance is given by its number (`InstancePlans`), which keeps
`InstanceCreation` out of this state space. `vma` remembers what each `VmaAllocator` was created with, so that
the properties can compare it with what `vkCreateDevice()` was given (`vulkan[n].info`).

### ImageView (src/image_view.cpp)

`CreateViewError` is the whole validation: the parent by device handle, the description, then the
effective range (`EffectiveRange`, where a count is "all remaining" when it is the largest unsigned value) against
the Image, its usages, its type. An ImageView keeps the handles of its Image and device, and `Correlated`
compares them, as `correlatedWith()` does. Handles of images are reused. The last case of the code's chain, a
format that is no core format, cannot occur: `createImage()` refuses it before.

### InstanceCreation (src/instance.cpp, src/instance_impl.hpp, src/instance_query.hpp, src/graphics_diagnostics.hpp)

| Code | Model |
|---|---|
| `queryInstanceCapabilities()` | `Query`: an absent version entry point means 1.0, names canonical |
| `add_requirement()`, `resolveInstance()` | `AddRequirement` for each name of the two lists (`AddAll`), `ResolveError`, `Plan`; `Resolve` |
| `createInstance()` | `Create`, `MakeCallbackState`, `CallNative`, `NativeReturns`, `MakeMessenger`, `MakeImpl`; `Unwind` at each of them |
| members of `Instance::Impl`, locals of `createInstance()` | `MemberOrder`; `DestroyMessenger`, `DestroyNative` (two steps: native code may call back in between), `FreeCallbackState`, `CloseContext` |
| `instance_debug_callback`, `translate`, `canonical_categories` | `Callback`, `Translated`, `Event` |
| moves of an `InstancePlan` | `MovePlanAway`: the vectors are emptied, version and flags stay (`MovedFrom`) |
| `Impl::plan`, `Instance::plan()` | `retained`, `PlanOf` |
| moves, destruction | `MoveInstance` (the displaced Impl is destroyed step by step after), `DestroyInstance` |

The application assigns to its plan (`Resolve`) and moves it whenever no call is under way, before it is applied and
after. `createInstance()` takes any plan, one that was moved from too, and counts its names. `RetainedPlansAreEffective` says that what
`Instance::plan()` answers is what that native instance was made with all the same; PhysicalSelection, DeviceCreation and Allocator take it as
given (`InstancePlans`). What a driver does when it is asked for a messenger without the extension is not modelled: the call succeeds or fails.

Native code may call back whenever a messenger exists, and during `vkCreateInstance()` and
`vkDestroyInstance()` when the information was chained. It does so with the address it was given
(`userData`); the heap gives freed addresses to the next `CallbackState`, so a late callback reaches
another Instance's sink or none. `asked` and `delivered` are the last question and the last event, for the
properties to look at, and are cleared by every other step.

## 3. Plan

The order was: what may destroy something too early (Retirement), what is submitted and observed
(CommandLifecycle, Submission), what is resolved (QueueResolution), what moves bytes (Resources,
TransferCommands, the two batches), where devices come from (PhysicalSelection, DeviceCreation), and then
what stands above and below those (InstanceCreation, Allocator, ImageView). The proofs followed the same order, and every invariant that a run checks is now proved. What is
left belongs to TLC: the three liveness properties (section 5, at the end).

Loops that build a list or a map are recursive functions in the modules that are proved about (`AddAll`, `Enabled`,
`Categories`, `QueueInfos`, `Gathered`, `MipDimension`), and sorting by a strict order is a choice by rank (`Sorted`,
`InOrder`): the prover has no definition of `SelectSeq` and `SortSeq`, and none of the folds.

## 4. Runs

Every run ends within a few minutes on two workers; the state counts are distinct states.

| Run | What it asks | Properties | States |
|---|---|---|---|
| `retirement` | Can an owner be lost, held twice or destroyed early, does a failing `collect()` destroy any, and is every one destroyed in the end? Is the queue what its contract says? | `NoEarlyDestruction`, `HeldExactlyOnce`, `ErrorReleasesNothing`, `ImplementsContract`, `EventuallyReleased` | 505,000 |
| `submission` | Does a record ever claim what Vulkan does not, an allocation get stranded, two views share a record? Does `submit()` let through only what Vulkan takes, does a receipt observe its own batch, and does a reported completion stay true? | `TrackingAgrees`, `EveryAllocationOwned`, `ViewsAreExclusive`, `SubmittedBuffersAreExecutable`, `ReceiptFollowsItsBatch`, `CompletionsStayTrue` | 75,000 |
| `queue_resolution` | Is the answer native, exhaustive, decided by preference and independent of the order of the search? | `AnswersAreExhaustive`, `ResolvedByPreference`, `PlanIsNative`, `AmbiguityIsGenuine`, `Terminates` | 414,000 |
| `resources` | Is every allocation destroyed once, unmapped, by its one owner, and every range inside it? Does a view stay on its Image, and inside it? | `OneOwnerEach`, `MappingsBalanced`, `SynchronizedInside`, `ViewsSeeTheirImage` | 114,000 |
| `upload_batch` | Do the recorded copies deliver the payload, all or none, to what the caller named, whatever fails? | `PackedStaging`, `DeliversPayload`, `RecordedCopiesAreValid`, `StagingLifecycle`, `NeverPartial` | 2,600,000 |
| `readback_batch` | Are published bytes those the GPU wrote, all of them, after it wrote them? Do the recorded reads name what the caller named? | `PackedReadback`, `RecordedReadsAreValid`, `PublishesWhatTheGpuWrote` | 2,550,000 |
| `readback_liveness` | Does retrying get there after any failures? | `RetrySucceeds` | 41,000 |
| `physical_selection` | Is the selected device determined by requirements and policy alone? | `SelectionIsDetermined` | 274,000 |
| `query_chains` | Is each structure chained only where it is permitted? (violated) | `ChainsArePermitted` | - |
| `device_and_allocator` | Does a device belong to its Instance and to one wrapper, serve its callers and enable what was asked? Does an allocator stand on parents that belong together, and promise only what was enabled? | `QueuesServeTheirCallers`, `DeviceIsFromItsInstance`, `NativeDevicesAreOwned`, `EnablesWhatWasAsked`, `AllocatorsStandOnTheirParents`, `FlagsAreEnabled` | 63,000 |
| `instance_creation` | Is a plan independent of the order of names, is everything made undone once, does a callback always find its own sink, and does an Instance answer with the plan it was made from? | `PlansAreCanonical`, `RetainedPlansAreEffective`, `CallbacksReachTheirSink`, `InstancesAreOwned` | 383,000 |
| `moved_plan` | Is Debug Utils used only of an instance created with it? (violated) | `DebugUtilsIsPermitted` | - |

### Bounds, and why they suffice

* `MaxFaults = 1` (Retirement, CommandLifecycle): one spontaneous failure, anywhere. What a failure
  leaves is looked at by every later call, and a second failure meets nothing a first one does not.
  A failure that is a state of affairs (a lost device, a moved wrapper) is not counted. The proofs hold for
  every bound.
* Retirement: two owners make `erase` shift an entry behind and keep one before; three batches on two
  devices give lists with one receipt, two, and two on different devices.
* CommandLifecycle and Submission: two of each wrapper, so that one can be moved onto another in use. All they can
  do is explored up to the first submission (a protected pool on its own), which is what CommandLifecycle does. From there on `MCSubmission!Slice` (the
  run's CONSTRAINT) follows one pool with one record and at most one view, or one recorded buffer for either
  queue if nothing failed before: further wrappers act on states a submission does not look at. Three batches, two fences and one timeline are
  enough for one batch to overtake, wait for or share a timeline with another. Of the tokens only those that say completed are kept: no
  later step can contradict another outcome.
* QueueResolution: up to three requests over two families; a chain, a ring and a third competitor are
  the smallest shapes of each relation. `MaxWork = 30` lets most inputs finish and stops others at every
  place that charges the budget (the code's constants are 100000 and 4096, reached the same way); `MaxSolutions = 8`
  and the list bounds of 3 are likewise small enough to be reached.
* `MaxSize` (23 for Readback, 31 for Upload, 2 for Resources) stands for the largest `vk::DeviceSize`: sums
  reach and pass it.
* The batches: four native handles, so that staging, target and a replacement are alive at once and one freed
  handle is reused; two devices; one batch at a time; `MaxUses = 2` submissions of a readback,
  `MaxRecorded` recordings; the application's own barriers and copies are recorded while
  a prepared batch waits for the same command buffer, which is where they could be taken for it. Once a readback is submitted its sources stay: changing what the GPU
  reads is a race of the application.
* DeviceCreation: `MaxInstances = 2`, `MaxDevices = 2`, two addresses each: a plan made for an Instance that
  is gone meets another at its address. Allocator: two of each, so that one is moved onto another.
  ImageView: two views over three handles; `RemainingCount = 3` is the largest count, and an image has three levels,
  so that a range passes the end by wrapping. InstanceCreation: `MaxInstances = 3` calls and two addresses, so that
  an address is reused while another Instance lives; after a first plan only the descriptions of `Repeated` are
  resolved again, because what a creation sees of a plan is its version, its lists and its flag. PhysicalSelection: `MaxSpan = 3` candidates, enough for two
  that tie and one that decides.
* What no run reaches, and only a theorem covers: in `device_and_allocator` no allocator is made with `maintenance4`,
  or with `dedicated_allocation` at version 1.0, which rests on `FlagsAreBacked`. In the Readback runs
  `PublishesWhatTheGpuWrote` says nothing was published of a lost device; there it depends on `PollAnswers`, by which the driver does not
  answer success for a lost device.
* Symmetry is declared over pools, implementations, records, views, handles and wrappers, none of which is
  named by a property or a description, and never in a run with a liveness property.

Two disjuncts of QueueResolution are in the code and never taken: a family found free by
`candidate_families` is never full when its turn comes, and no retained allocation equals another.
`AnswersAreExhaustive` (retained allocations are distinct) and the run show it.

### Fairness

The library schedules nothing; what goes on by itself is named in each `Fairness`:

* `retirement`: the application goes on calling `collect()` and calls
  `reclaimAfterDeviceLoss()` once a loss was seen (retirement.hpp:46-48 forbids to destroy a queue that holds owners and names these two ways to empty it); a call that began runs
  to its end; the GPU completes what it was given unless the device is lost. The
  safety properties of the run need none of it.
* `readback_liveness`, from the first submission on: the GPU runs what was submitted; a `tryCopyCompleted` that began ends; the application
  retries; a poll, an allocation, `map()` and `invalidate()` do not fail every time (strong fairness on
  their success: without it the driver may fail for ever, and nothing can be promised).
* `queue_resolution`: the resolver is one plain call, so `WF_vars(Next)`.

### Deadlock

It is checked in every run but `queue_resolution`, `physical_selection` and `query_chains`, whose
specifications end with an answer.

## 5. Proofs

TLAPS proves the following for **every** value of the constants: any number of owners, batches, queues, devices,
pools, records, views, wrappers, addresses and handles, any receipt list, plans and capabilities, any items, regions,
numbers of mip levels and largest size, any bound on failures. Types are
among it (`TypeOK`, `StateTypeOK`, `ResourcesTypeOK`, `ViewTypeOK`, `UploadTypeOK`, `ReadbackTypeOK`), which no run repeats. Each assumption is a named
`ASSUME` of the module that declares the constants, and TLC evaluates it in the runs.

*RetirementProofs.* The assumption is `RetirementAssumption` (constants are typed). The inductive invariant
`IInv` conjoins the three properties of the run with

* `EntriesCovered` (no entry without a receipt: otherwise "all complete" would be vacuous),
* `OneDevice` (all receipts a queue holds are on `device_`: one observed loss then frees all of them,
  which `Reclaim` needs),
* `LossIsNative` (`lost_` is latched only for a lost device),
* `CollectSound` (the cursors are in range; what `ready` marks, and the receipts before the cursor, are out
  of the way *now*, though they were polled long before, because completion and loss are never
  taken back; while erasing from the back, the positions still to come are unshifted), and
* `FailFast`.

`NoEarlyDestruction` needs the first four and cannot be proved alone. `FailedCollectKeepsOwners` adds
a second invariant, `PollingHolds`: while polling, all owners that `collect()` found are still held.
`QueueImplementsContract` shows that each step is a step of `RetirementContract` or a stutter: one
lemma per step that hands over, releases, observes a loss or reclaims; all others leave the mapped variables
alone.

*SubmissionProofs, the lifecycle.* The assumption is `LifecycleAssumption`. The inductive invariant, `Inductive`, is `StateTypeOK` and the
three properties with `Tracked` (a record that tracks a state has an allocation), `Pooled` (an
implementation with records is some pool's) and `Described` (an implementation a pool has was created
with a description, so a new one owns nothing yet). Without them a step from an unreachable state,
such as a view on a record whose pool is gone, would break the properties. `reply` is left out of the
invariant, since Submission extends the module and answers with replies of its own; `TypeOK` follows with
`Answered`.

*SubmissionProofs, the GPU.* The assumptions are `SubmissionAssumption` (the kinds of completion objects are disjoint) and
`LifecycleAssumption`. The inductive invariant has three parts. `Inductive` is kept by every
step of a GPU too, which `TrackingSurvivesTheGpu` states. `ReceiptsInv` says why a receipt cannot lie: pending
batches share no fence, a fence is raised exactly once its batch is done and until it is reset (`FencesInv`); a timeline
has reached the value of a signal exactly if that signal fired, and no value is signalled twice
(`TimelinesInv`). `BuffersInv`: what a pending batch executes is pending in Vulkan, too. The theorem on `submit()` follows step by step:
`BuffersError` accepts what the records say is executable, and tracking makes that true of Vulkan. `submit()` answers with the
*first* error, and that there is a first one is a minimum of the well-founded order of naturals.

*QueueProofs.* The assumption is `QueueAssumption` (limits are naturals, inventories are finite, requests are typed). The invariant
`Inv` has one part per phase. `OrderInv`: the visit of the alias relations puts every request in the order once and behind its target.
`SearchInv` of the backtracking search: the choices above the level are legal (`PathInv`), `used` counts precisely the requests that hold a
queue, which is what the undo has to restore, and `RetainedInv` says why nothing is missed or found twice: a complete allocation is either
retained or still `Waiting`, which means that it agrees with the choices made down to some level and that an option pending on that level
leads to it. For this the options pending on a level have to exclude each other and the choice made there (`TasksInv`). When the
search ends and no bound was hit, nothing is waiting, and all of `Complete` is retained; `ExhaustiveAnswers` is that.
`CompareInv` says that what was kept among the first candidates is what nothing retained dominates.

Three arguments about `Complete` stand apart from the steps. `CompleteIsNative`: the queue a request gets is the number of
requests before it that have one of their own in that family, so that the queues of a family are its first ones and no two are the
same; an alias stands on a chain of aliases that ends at such a request (`RootExists`). `PreferenceMeans`: the preferences of the code, which
compares families and alias policies as the request lists them, are the ranks of `AsGood`. `UnbeatenAbove`: among finitely many allocations every one has
an undominated one above it, so that a *single* undominated allocation is above all of them
(`PreferredPlans`). None of the four properties is inductive.

*ResourcesProofs.* The assumptions are `ResourcesAssumption` and `ViewAssumption` (null is no object, descriptions are
typed). The invariant is `OwnersInv` (each native object is one wrapper's, and VMA's count of its mappings is 1 or 0, as the
wrapper's flag says: the local form, `Balanced`, of a property that counts), `Accepted` (an Image that exists was
not refused, so its extents are there for a view to stay inside) and `ViewsInv` (a view's Image is alive, and its range is inside it). `ViewsStandOnTheirImage` needs the
caller's duty that an Image outlives its views; `OwnersAlone` does without. The module also has what is shared by the proofs of
the two batches, under `TransferAssumption` (an extent is positive, an image that was not refused has at most 32 levels): what a valid
region covers (`RegionInside`) lies in the mip level as the property counts it. The code shifts an extent by the level, at most
31 bits; `LevelSize`, the yardstick, halves it level by level. Both are recursive functions, and `LevelsHalve` and `ShiftsHalve` find their
defining equations by induction over sets of naturals before `MipDimensionIsLevelSize` makes them equal.

*UploadProofs.* `UploadAssumption` (the wrapper of the staging buffer is no target, descriptions are lists of
items) is added. The inductive invariant `UploadInv` says

* which staging buffer there is at every step, and whether it is mapped (`LocalLives`, `OwnerLives`);
* that entries are those of the description's items, in order (`EntriesOfItems`), and that their spans follow one
  another up to `staging_bytes` (`Contiguous`), which itself is at most `MaxSize`;
* that after `WriteStaging` the memory is what `Packed` says, and after a flush the GPU sees the same (`MemoryHolds`);
* that what was recorded was recorded from entries that pass the checks of `recordUploadBatch()` and still would (`Recordable`,
  `Recording`).

`PackedStaging` and `StagingLifecycle` are parts of it. `DeliversPayload` needs all of it: that a place in the memory
belongs to one item is the disjointness of the spans. `NeverPartial` compares the validation of the batch with that of the
recorders, call by call (`TransferCommands`): each condition on which a native helper would fail was tested before, or
follows from where the entries lie. `NoReadbackIsRecordedInPart` is the same of the readback, which no run repeats.

*ReadbackProofs.* `ReadbackAssumption` is added, and the invariant is `ReadbackInv`: the staging buffer (`StagingLives`),
where the entries lie (`Laid`, which each item of `prepare` extends), that once all submissions have completed the
memory holds what the recorded copies write (`MemoryHolds`), how far `tryCopyCompleted` has come (`CallHolds`), and that
what was recorded is readable (`Recording`). The receipts are polled one after the other; `CallHolds` says that
those polled so far *are* completed, not that they were, which holds because a completion is never taken back, and that
from then on no submission is left that could write. `OnlyWrittenBytesArePublished` joins the two halves: the copy loops
of the code walk over rows, the GPU writes texels, and a byte of a row belongs to exactly one texel (division with
remainder), an item to no other.

*CreationProofs, devices and allocators.* The assumptions are `CreationAssumption` and `AllocatorAssumption` (native queries are
canonical, family lists are sequences of naturals; descriptions are lists of names and finite sets of requests). The invariant is

* `InstancesInv`: native instance, address and wrapper are one to one;
* `PlansInv`: a plan's native instance lives, if it does, at the address the plan remembers, though that address
  may hold another by now (`Rooted`), and what a plan enables is what resolving decided, unless its
  allocations were moved away (`Sound`). Comparing addresses therefore tells native instances apart exactly while the plan's
  lives, which is the precondition of `createDevice()`;
* `DevicesInv`: each implementation has its own living native device, created from its plan in the instance that lives at the
  address it remembers (`Backed`), and every living one has a wrapper;
* `AllocatorsInv`: each `VmaAllocator` has a wrapper, and its device is what it was created for (`Grounded`). It is kept
  by every other step because a Device outlives its Allocators;
* `QueuesInv`: an implementation holds the views of its plan's queues, and its plan has the allocations that
  resolving chose, each with the priority of the requests it serves (`Served`, a part of `Sound`).

`QueuesServeTheirCallers` relates the grouping of `createDevice()` to what `Queue` finds through it. There is one allocation per
queue, sorted by family and index (`InOrder`, `InOrderIs`), and as the queues used of a family are its first ones, an
allocation that is not of the first queue of its family follows that of the queue before (`Consecutive`). Each turn of the
loop therefore begins a family at its first queue or adds the next queue to the last family (`GroupStep`), so that by
induction every queue is created at the place of its index, with the priority its requests share (`InfosHoldQueues`).

*CreationProofs, selection.* `SelectionAssumption` is that the constants are typed and a policy has one explicit UUID or none. `SelectionInv` says that the
inventory holds the snapshots of the first native devices, each with what its versions and extensions allow to be
asked, and that the last answer is one about this inventory. The code narrows a vector of pointers again and again and
looks at its size; the property speaks of the *set* of places in the span that requirements and policy leave. `GatheredIs`
joins them: a gathered vector is one to one with the places that match (`Picks`), also if what it was gathered from was
gathered itself (`GatheredTwice`), so that sizes 0, 1 and more are those of that set (`SoleDecides`). What a snapshot says of the UUID and of the rest
is what the native device says, zero UUIDs that were never queried apart (`SnapshotsTell`); `SpanIsDecided` and
`ChosenIsDecided` are the two overloads.

*InstanceProofs.* The assumption is `InstanceAssumption`. The invariant says that owners, which are wrappers and the
call under way, are apart and own what exists (`OwnersInv`, `Backed`), how far that call has come (`Progress`), that an
instance that exists has an owner (`NativeInv`). `WorkChanges` is the one argument for all steps of a creation or a destruction: they touch only what the call
owns. The order of the members (`Order`) is what keeps the callback state while an instance exists.
`UserDataIsLive` is the first half of `CallbacksReachTheirSink`. The second, about the event, holds of the last event
given (`EventsAreWhole`) and of the loop over the four categories (`CategoriesFound`), which takes each category of a mask once.
`RetainedInv` adds to the invariant, at each step of a creation, how far the native instance agrees with the plan that is applied (`Making`):
nobody can assign to that plan before the copy is made, and afterwards the copy goes with the implementation (`Known`).
The other creations cannot disturb either, because owners are apart (`OthersKnown`).

`PlansAreCanonical` needs no more of the invariant than that the last answer is the one to the last question (`AnswerInv`); the rest is what
`resolveInstance()` computes of lists of any length. `Gathers` says what the map is after the names so far: an error exactly if
one is ill-formed or both required and optional, else each at its strength, so that neither order nor repetition
can matter; each call of `add_requirement()` keeps it (`AddRequirementIs`, `AddAllIs`). `ExtensionsAre` adds what the mode of
Debug Utils derives, `SortedIs` and `EnabledIs` what the walk over the map decides and enables, in canonical
order (`DecisionsAre`).

**Only model-checked** is what must eventually happen: that `collect()` and `reclaimAfterDeviceLoss()` release every owner
(`EventuallyReleased`), that retrying a readback succeeds (`RetrySucceeds`) and that the resolver terminates (`Terminates`). They rest on
fairness and ENABLED, for which the prover has no rules that its backends support. `ChainsArePermitted` and `DebugUtilsIsPermitted` are refuted, not proved. The induction
theorems of the library take an operator as a parameter, which is out of reach here; the recursive functions of the models are
handled by induction over a *set* of naturals (every non-empty one has a least member) instead.

## 6. Disagreements with the documentation

`ChainsArePermitted` (run `query_chains`) is violated: physical_device_query.hpp:85 chains
`VkPhysicalDeviceVulkan11Features` when Instance and device are 1.1, although Vulkan has that structure
since 1.2 only (its name notwithstanding) and the comment at physical_device_query.hpp:25-27 claims that
members are chained only where versions and extensions permit them.

`DebugUtilsIsPermitted` (run `moved_plan`) is violated: `createInstance()` asks a plan's flag (instance.cpp:725, 741), and the defaulted
moves of InstancePlan (instance.hpp:123-124) leave the flag in a plan whose extensions they empty. Of such a plan it chains messenger
information, and makes a messenger, for an instance without `VK_EXT_debug_utils`, although "a successful
resolution cannot be forged or changed before native apply" (instance.hpp:112-114), on which `createInstance()` relies when it "performs only
structural/ABI checks" (instance.cpp:674-676). A moved-from plan is a plan to the tests (test_graphics_instance.cpp:442-443), and `createDevice()` refuses
a DevicePlan in that state (`MovePlanAway` of DeviceCreation). For a plan that was not moved from, the flag is true only if
the extension is among those enabled (`DebugUtilsEnabled`).

## 7. The caller's duties

The code leaves these to its caller, and the models take them as given:

* a receipt is not asked any more once its fence was reset (submission.hpp:55-58);
* an Instance outlives its Devices (device.hpp:354-359), a Device its Allocators (allocator.hpp:49-54), an
  Image its views (image_view.hpp:29-32), and observers of borrowed parents are called while
  the parent lives (physical_device.hpp:49-54);
* calls on one object come from one thread at a time: the library takes no lock.

A Buffer or Image that a batch names should stay the same object until it is recorded
(upload_batch.hpp:173, `docs/architecture/upload_batch.md:76-79`): the models **break** this rule, and
the properties say what still holds: every recorded copy is valid for the objects it names at
the time of recording.

## 8. Not modelled

Sampler: one validated native call whose limits are independent conditions on floating-point fields, and the
ownership of ImageView without an Image; a unit test reaches all of it. The value types of core, the
empty platform module, the printing main program, the build and the tests have no behaviour to model.

Inside modelled parts, left out: messages of errors, texts, labels and objects of diagnostic events, the
contents of feature structures beyond one member of each version, image tilings and flags beyond accepted or refused,
protected memory beyond its flag, lists of more than 2^32 regions or barriers, and the observers
`budgets()` and `statistics()`, which ask VMA and change nothing. `std::bad_alloc` is modelled where state was or could
have been changed before it.

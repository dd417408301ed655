---------------------------- MODULE DeviceCreation ----------------------------
(***************************************************************************)
(* graphics/device.cpp from a candidate to a logical device:               *)
(* resolveDevice() decides extensions and features from a capability       *)
(* snapshot, createDevice() applies the resulting DevicePlan to an         *)
(* Instance, Device::queue() hands out borrowed Queue views.               *)
(*                                                                         *)
(* The allocation of queues is the contract of resolve_queues(), which     *)
(* module QueueResolution models and checks (PlanIsNative and              *)
(* AnswersAreExhaustive there).                                            *)
(*                                                                         *)
(* Wrappers hold implementations by address.  The address of a destroyed   *)
(* implementation is free for the next one; native instances and native    *)
(* devices are numbered and never reused.                                  *)
(***************************************************************************)
EXTENDS Integers, Sequences, FiniteSets, SequencesExt, TLC

CONSTANTS
    Instances, InstanceImpls,   \* Instance wrappers, addresses of Instance::Impl
    Devices, DeviceImpls,       \* Device wrappers, addresses of Device::Impl
    NoImpl,                     \* the null pointer
    Slots,                      \* DevicePlan variables of the application
    Capabilities,               \* Gpu -> PhysicalDeviceCapabilities that native queries yield
    Snapshots,                  \* PhysicalDeviceCapabilities the application made up
    Descriptions,               \* DeviceDescriptions of the application
    MaxInstances, MaxDevices    \* bounds: native instances and devices ever created

NoName == ""        \* every name that is empty or has an embedded NUL
NoGpu == "null"     \* the null native handle of a PhysicalDevice
Gpus == DOMAIN Capabilities

\* A feature is <<version, member>>, with the versions 10 to 13.
Core11(member) == <<11, member>>

ASSUME CreationAssumption ==
    /\ NoImpl \notin InstanceImpls \cup DeviceImpls
    /\ NoGpu \notin Gpus
    /\ MaxInstances \in Nat /\ MaxDevices \in Nat
    \* Native queries are canonical: names unique, structures well formed, and a
    \* feature structure that was not queried keeps its zeroes.
    /\ \A g \in Gpus : /\ Capabilities[g].wellformed
                       /\ Capabilities[g].api_version \in Nat
                       /\ NoName \notin Range(Capabilities[g].extensions)
                       /\ IsInjective(Capabilities[g].extensions)
                       /\ Capabilities[g].versions \subseteq {11, 12, 13}
                       /\ \A f \in Capabilities[g].features :
                            f[1] = 10 \/ f[1] \in Capabilities[g].versions
    /\ \A c \in Range(Capabilities) \cup Snapshots : c.families \in Seq(Nat)
    /\ \A d \in Descriptions :
         /\ d.required_extensions \in Seq(STRING) /\ d.optional_extensions \in Seq(STRING)
         /\ IsFiniteSet(d.queue_requests)

VARIABLES
    implementation, \* Instance::implementation_
    native,         \* the native instance an Instance::Impl owns, or zero
    instances,      \* native instances created so far
    plans,          \* the DevicePlans of the application
    device,         \* Device::implementation_
    content,        \* what a Device::Impl holds
    vulkan          \* the native devices created so far

instanceVars == <<implementation, native, instances>>
deviceVars == <<device, content, vulkan>>
vars == <<instanceVars, plans, deviceVars>>

-----------------------------------------------------------------------------
(* resolve_device_impl                                                     *)

Unique(names) == NoName \notin Range(names) /\ IsInjective(names)

\* The structure of a feature was observed and the feature is supported in it.
Supported(c, f) == f \in c.features /\ (f[1] = 10 \/ f[1] \in c.versions)

Required(d) == {q \in d.queue_requests : q.strength = "required"}

\* Variant: the decision is recorded and the request enabled regardless.
EffectiveUnchecked(c, d) == d.required_features \cup d.optional_features

Effective(c, d) == {f \in d.required_features \cup d.optional_features : Supported(c, f)}

EnabledExtensions(c, d) ==
    Range(d.required_extensions \o d.optional_extensions) \cap Range(c.extensions)

\* canonicalize_extensions: the first name that is malformed or was there before.
NameError(d) ==
    LET names == d.required_extensions \o d.optional_extensions
        bad == {k \in DOMAIN names : names[k] = NoName \/ \E j \in 1..k - 1 : names[j] = names[k]}
    IN  IF bad = {} THEN "success"
        ELSE IF names[Min(bad)] = NoName THEN "invalid_description"
        ELSE "contradictory_requirements"

PrerequisiteMissing(enabled) ==
    /\ Core11("variablePointers") \in enabled
    /\ Core11("variablePointersStorageBuffer") \notin enabled

ResolveError(c, d) ==
    IF ~d.wellformed THEN "invalid_feature_chain"
    ELSE IF d.required_features \cap d.optional_features # {} THEN "contradictory_requirements"
    ELSE IF ~Unique(c.extensions) THEN "invalid_description"
    ELSE IF ~c.wellformed THEN "invalid_feature_chain"
    ELSE IF NameError(d) # "success" THEN NameError(d)
    ELSE IF ~(Range(d.required_extensions) \subseteq Range(c.extensions))
      THEN "missing_required_extension"
    ELSE IF \E f \in d.required_features : ~Supported(c, f) THEN "unsupported_required_feature"
    ELSE IF PrerequisiteMissing(Effective(c, d)) THEN "contradictory_requirements"
    ELSE "success"

\* What resolve_queues() may accept: requests share a queue only at one
\* priority, and the queues used of a family are its first ones.
QueueChoices(c, d) ==
    LET coordinates == {x \in (DOMAIN c.families) \X (0..Max(Range(c.families) \cup {0})) :
                          x[2] < c.families[x[1]]}
        accepted == {a \in SUBSET d.queue_requests : a # {} /\ Required(d) \subseteq a}
    IN  {choice \in UNION {[a -> coordinates] : a \in accepted} :
            /\ \A q, r \in DOMAIN choice : choice[q] = choice[r] => q.priority = r.priority
            /\ \A q \in DOMAIN choice : \A i \in 0..choice[q][2] - 1 :
                 \E r \in DOMAIN choice : choice[r] = <<choice[q][1], i>>}

Before(a, b) == a.family < b.family \/ (a.family = b.family /\ a.index < b.index)

\* Allocations of different coordinates, sorted by coordinate.
InOrder(allocations) ==
    LET Place(a) == 1 + Cardinality({b \in allocations : Before(b, a)})
    IN  [k \in 1..Cardinality(allocations) |-> CHOOSE a \in allocations : Place(a) = k]

\* One allocation per native queue, by coordinate.
Allocations(choice) ==
    InOrder({[family |-> choice[q][1], index |-> choice[q][2], priority |-> q.priority] :
               q \in DOMAIN choice})

\* caller_id -> position of its allocation
Assignments(choice) ==
    LET found(q) == CHOOSE k \in DOMAIN Allocations(choice) :
                        /\ Allocations(choice)[k].family = choice[q][1]
                        /\ Allocations(choice)[k].index = choice[q][2]
        callers == {q.caller_id : q \in DOMAIN choice}
    IN  [id \in callers |-> found(CHOOSE q \in DOMAIN choice : q.caller_id = id)]

\* The resolutions of every description against every snapshot, none where
\* resolving fails: all of a DevicePlan but where it comes from.
Resolution(c, d, choice) ==
    [api_version |-> c.api_version, families |-> c.families, requested |-> d,
     extensions |-> EnabledExtensions(c, d), features |-> Effective(c, d),
     allocations |-> Allocations(choice), assignments |-> Assignments(choice)]

Resolutions ==
    [c \in Range(Capabilities) \cup Snapshots |-> [d \in Descriptions |->
        {Resolution(c, d, choice) :
            choice \in IF ResolveError(c, d) = "success" THEN QueueChoices(c, d) ELSE {}}]]

\* DevicePlan.  "instance" is not in the code: the native instance of the view.
Plan(parent, instance, gpu, r) ==
    [parent |-> parent, instance |-> instance, gpu |-> gpu,
     api_version |-> r.api_version, families |-> r.families, requested |-> r.requested,
     extensions |-> r.extensions, features |-> r.features,
     allocations |-> r.allocations, assignments |-> r.assignments]

\* The members that a move leaves empty; enabled features and views are copied.
MovedFrom(p) == [p EXCEPT !.families = <<>>, !.extensions = {}, !.allocations = <<>>,
                          !.assignments = <<>>]

NoPlan == [allocations |-> <<>>, gpu |-> "none"]
Exists(p) == p.gpu # "none"

-----------------------------------------------------------------------------
(* validate_native_plan, createDevice                                      *)

InvalidStructure(p) ==
    \/ p.allocations = <<>>
    \/ \E k \in DOMAIN p.allocations :
         \/ p.allocations[k].family \notin DOMAIN p.families
         \/ p.allocations[k].index >= p.families[p.allocations[k].family]
         \/ \E j \in 1..k - 1 : /\ p.allocations[j].family = p.allocations[k].family
                                /\ p.allocations[j].index = p.allocations[k].index
    \/ \E id \in DOMAIN p.assignments : p.assignments[id] \notin DOMAIN p.allocations

\* Nothing asks for it where two allocations have the same coordinates.
OrderedAllocations(p) == InOrder(Range(p.allocations))

NotContiguous(ordered) ==
    \E k \in 2..Len(ordered) :
        /\ ordered[k - 1].family = ordered[k].family
        /\ ordered[k].index # Cardinality({j \in 1..k - 1 : ordered[j].family = ordered[k].family})

\* Variant: the place of a family's priorities is that of its group.
GroupPerFamily(groups, allocation) ==
    LET n == Len(groups)
    IN  IF n > 0 /\ groups[n].family = allocation.family
        THEN [groups EXCEPT ![n].count = @ + 1]
        ELSE Append(groups, [family |-> allocation.family, count |-> 1, priority_offset |-> n])

\* One step of the loop that groups allocations by family.
Group(groups, allocation) ==
    LET n == Len(groups)
    IN  IF n > 0 /\ groups[n].family = allocation.family
        THEN [groups EXCEPT ![n].count = @ + 1]
        ELSE Append(groups, [family |-> allocation.family, count |-> 1,
               priority_offset |-> IF n = 0 THEN 0 ELSE groups[n].priority_offset + groups[n].count])

\* VkDeviceQueueCreateInfo: each reads count priorities from its offset on.
QueueInfos(ordered) ==
    LET grouped[n \in 0..Len(ordered)] ==
            IF n = 0 THEN <<>> ELSE Group(grouped[n - 1], ordered[n])
        groups == grouped[Len(ordered)]
    IN  [g \in DOMAIN groups |->
           [family |-> groups[g].family,
            priorities |-> [k \in 1..groups[g].count |->
                              ordered[groups[g].priority_offset + k].priority]]]

\* The feature structures of the pNext chain.
FeatureChain(p) == {v \in {11, 12, 13} : \E f \in p.features : f[1] = v}

\* What vkCreateDevice() is asked for.
CreateInfo(p) ==
    [queues |-> QueueInfos(OrderedAllocations(p)), extensions |-> p.extensions,
     chain |-> FeatureChain(p),
     features |-> {f \in p.features : f[1] = 10 \/ f[1] \in FeatureChain(p)}]

\* Variant: a plan is applied to whatever Instance is supplied.
CreateErrorAnyParent(i, p) ==
    IF implementation[i] = NoImpl THEN "invalid_instance"
    ELSE IF p.gpu = NoGpu THEN "invalid_physical_device"
    ELSE IF InvalidStructure(p) THEN "invalid_plan"
    ELSE IF NotContiguous(OrderedAllocations(p)) THEN "invalid_plan"
    ELSE "success"

CreateError(i, p) ==
    IF implementation[i] = NoImpl THEN "invalid_instance"
    ELSE IF p.gpu = NoGpu THEN "invalid_physical_device"
    ELSE IF p.parent # implementation[i] THEN "parent_mismatch"
    ELSE IF InvalidStructure(p) THEN "invalid_plan"
    ELSE IF NotContiguous(OrderedAllocations(p)) THEN "invalid_plan"
    ELSE "success"

-----------------------------------------------------------------------------
(* Device, Queue                                                           *)

Nothing == [native |-> 0]
NoView == [native |-> 0]
Valid(d) == device[d] # NoImpl

\* The Queue views appended while the implementation is made.
Queues(n, m, p) ==
    [k \in DOMAIN p.allocations |->
        [native |-> n, parent |-> m, family |-> OrderedAllocations(p)[k].family,
         index |-> OrderedAllocations(p)[k].index]]

\* Device::queue
Queue(d, id) ==
    IF ~Valid(d) THEN NoView
    ELSE LET impl == content[device[d]]
             a == impl.plan.allocations[impl.plan.assignments[id]]
             hits == {k \in DOMAIN impl.queues : /\ impl.queues[k].family = a.family
                                                 /\ impl.queues[k].index = a.index}
         IN  IF id \notin DOMAIN impl.plan.assignments THEN NoView
             ELSE IF hits = {} THEN NoView ELSE impl.queues[Min(hits)]

\* Queue::correlatedWith, Device::correlatedWith
Correlated(v, d) == v # NoView /\ Valid(d) /\ v.parent = device[d]
DeviceCorrelated(d, i) ==
    Valid(d) /\ implementation[i] # NoImpl /\ content[device[d]].parent = implementation[i]

-----------------------------------------------------------------------------

Init ==
    /\ implementation = [i \in Instances |-> NoImpl]
    /\ native = [m \in InstanceImpls |-> 0]
    /\ instances = 0
    /\ plans = [s \in Slots |-> NoPlan]
    /\ device = [d \in Devices |-> NoImpl]
    /\ content = [m \in DeviceImpls |-> Nothing]
    /\ vulkan = <<>>

\* Native devices that live in native instance n.
DevicesOf(n) == {k \in DOMAIN vulkan : vulkan[k].alive /\ vulkan[k].instance = n}

\* "The application must destroy Device before that Instance."
MayEnd(m) == \A n \in InstanceImpls : n = m => DevicesOf(native[n]) = {}

CreateInstance(i) ==
    /\ instances < MaxInstances
    /\ implementation[i] = NoImpl
    /\ \E m \in {m \in InstanceImpls : native[m] = 0} :
        /\ implementation' = [implementation EXCEPT ![i] = m]
        /\ native' = [native EXCEPT ![m] = instances + 1]
    /\ instances' = instances + 1
    /\ UNCHANGED <<plans, deviceVars>>

Ended(m) == [n \in InstanceImpls |-> IF n = m THEN 0 ELSE native[n]]

MoveInstance(from, to) ==
    /\ from # to /\ MayEnd(implementation[to])
    /\ native' = Ended(implementation[to])
    /\ implementation' = [implementation EXCEPT ![to] = implementation[from], ![from] = NoImpl]
    /\ UNCHANGED <<instances, plans, deviceVars>>

DestroyInstance(i) ==
    /\ implementation[i] # NoImpl /\ MayEnd(implementation[i])
    /\ native' = Ended(implementation[i])
    /\ implementation' = [implementation EXCEPT ![i] = NoImpl]
    /\ UNCHANGED <<instances, plans, deviceVars>>

\* resolveDevice() with what it is given, a candidate's or a made-up snapshot,
\* returns the plan of the allocation resolve_queues() selected.
Resolve(s, parent, instance, gpu, c, d) ==
    /\ Len(vulkan) < MaxDevices     \* a later plan could not be used any more
    /\ \E resolution \in Resolutions[c][d] :
        plans' = [plans EXCEPT ![s] = Plan(parent, instance, gpu, resolution)]
    /\ UNCHANGED <<instanceVars, deviceVars>>

ResolveCandidate(s, i, g, d) ==
    /\ implementation[i] # NoImpl
    /\ Resolve(s, implementation[i], native[implementation[i]], g, Capabilities[g], d)

ResolveSnapshot(s, c, d) == Resolve(s, NoImpl, 0, NoGpu, c, d)

\* It returns ResolveError(c, d) or an error of resolve_queues(), and no plan.
ResolveFails == UNCHANGED vars

\* The application moves the plan to somewhere else and keeps the variable.
MovePlanAway(s) ==
    /\ Exists(plans[s])
    /\ plans' = [plans EXCEPT ![s] = MovedFrom(plans[s])]
    /\ UNCHANGED <<instanceVars, deviceVars>>

\* "Borrow observers have a live-parent precondition": createDevice() asks the
\* plan's physical device for its parent.
ParentLives(p) == p.gpu = NoGpu \/ \E m \in InstanceImpls : native[m] = p.instance

MayCreate(s) == Exists(plans[s]) /\ ParentLives(plans[s])

Destroyed == [alive |-> FALSE]
Native(i, p) ==
    [alive |-> TRUE, instance |-> native[implementation[i]], gpu |-> p.gpu,
     requested |-> p.requested, info |-> CreateInfo(p)]

\* Refused with CreateError(i, plans[s]) of some i; or a container before vkCreateDevice(),
\* or that call itself, failed.
CreateFails(s) ==
    /\ MayCreate(s)
    /\ UNCHANGED vars

\* The implementation or its views found no memory: the native device goes.
CreateUnwinds(i, s) ==
    /\ MayCreate(s) /\ Len(vulkan) < MaxDevices
    /\ CreateError(i, plans[s]) = "success"
    /\ vulkan' = Append(vulkan, Destroyed)
    /\ UNCHANGED <<instanceVars, plans, device, content>>

Create(d, i, s) ==
    /\ MayCreate(s) /\ Len(vulkan) < MaxDevices
    /\ ~Valid(d)
    /\ CreateError(i, plans[s]) = "success"
    /\ vulkan' = Append(vulkan, Native(i, plans[s]))
    /\ \E m \in {m \in DeviceImpls : content[m] = Nothing} :
        /\ content' = [content EXCEPT ![m] =
             [native |-> Len(vulkan'), plan |-> plans[s], parent |-> implementation[i],
              queues |-> Queues(Len(vulkan'), m, plans[s])]]
        /\ device' = [device EXCEPT ![d] = m]
    /\ UNCHANGED <<instanceVars, plans>>

\* The end of an implementation, if there is one, destroys its native device.
EndImpl(m) ==
    LET ends(k) == m # NoImpl /\ content[m].native = k
    IN  /\ content' = [n \in DeviceImpls |-> IF n = m THEN Nothing ELSE content[n]]
        /\ vulkan' = [k \in DOMAIN vulkan |-> IF ends(k) THEN Destroyed ELSE vulkan[k]]

\* Variant: the displaced implementation is released, not destroyed.
MoveDeviceReleasing(from, to) ==
    /\ from # to
    /\ device' = [device EXCEPT ![to] = device[from], ![from] = NoImpl]
    /\ UNCHANGED <<instanceVars, plans, content, vulkan>>

MoveDevice(from, to) ==
    /\ from # to
    /\ EndImpl(device[to])
    /\ device' = [device EXCEPT ![to] = device[from], ![from] = NoImpl]
    /\ UNCHANGED <<instanceVars, plans>>

DestroyDevice(d) ==
    /\ Valid(d)
    /\ EndImpl(device[d])
    /\ device' = [device EXCEPT ![d] = NoImpl]
    /\ UNCHANGED <<instanceVars, plans>>

CallerIds == {q.caller_id : q \in UNION {d.queue_requests : d \in Descriptions}}

Next ==
    \/ \E i \in Instances : CreateInstance(i) \/ DestroyInstance(i)
    \/ \E from, to \in Instances : MoveInstance(from, to)
    \/ \E s \in Slots, i \in Instances, g \in Gpus, d \in Descriptions : ResolveCandidate(s, i, g, d)
    \/ \E s \in Slots, c \in Snapshots, d \in Descriptions : ResolveSnapshot(s, c, d)
    \/ ResolveFails
    \/ \E s \in Slots : MovePlanAway(s) \/ CreateFails(s)
    \/ \E i \in Instances, s \in Slots : CreateUnwinds(i, s)
    \/ \E d \in Devices, i \in Instances, s \in Slots : Create(d, i, s)
    \/ \E from, to \in Devices : MoveDevice(from, to)
    \/ \E d \in Devices : DestroyDevice(d)

Spec == Init /\ [][Next]_vars

-----------------------------------------------------------------------------
(* Properties                                                              *)

Alive == {k \in DOMAIN vulkan : vulkan[k].alive}

\* Every accepted caller gets a view of a native queue that was created, in this
\* device, with the priority that caller asked for, and correlated with the
\* wrapper that owns the device and with no other; a declined or unknown caller
\* gets none (device.cpp:1797-1800, 1836-1857, 1882-1939).
QueuesServeTheirCallers ==
    \A d \in {d \in Devices : Valid(d)} :
        LET impl == content[device[d]]
            created == vulkan[impl.native].info.queues
        IN  \A id \in CallerIds :
              IF id \notin DOMAIN impl.plan.assignments THEN Queue(d, id) = NoView
              ELSE /\ Queue(d, id).native = impl.native
                   /\ \A e \in Devices : Correlated(Queue(d, id), e) <=> e = d
                   /\ \E g \in DOMAIN created, q \in impl.plan.requested.queue_requests :
                        /\ created[g].family = Queue(d, id).family
                        /\ Queue(d, id).index < Len(created[g].priorities)
                        /\ q.caller_id = id
                        /\ created[g].priorities[Queue(d, id).index + 1] = q.priority

\* A native device belongs to the native instance whose physical device its plan
\* selected, and correlatedWith() says so for the wrapper that holds it now and
\* for no other, whatever was moved since and whichever addresses were reused; a
\* plan is refused as another Instance's exactly when it is
\* (device.cpp:1657-1659, 1832-1834).
DeviceIsFromItsInstance ==
    /\ \A i \in Instances, s \in Slots :
        MayCreate(s) =>
            (CreateError(i, plans[s]) = "parent_mismatch" <=>
                /\ implementation[i] # NoImpl /\ plans[s].gpu # NoGpu
                /\ native[implementation[i]] # plans[s].instance)
    /\ \A d \in {d \in Devices : Valid(d)} :
        LET impl == content[device[d]]
        IN  /\ vulkan[impl.native].instance = impl.plan.instance
            /\ \A i \in Instances :
                 DeviceCorrelated(d, i) <=>
                    /\ implementation[i] # NoImpl
                    /\ native[implementation[i]] = impl.plan.instance

\* The native devices that exist are those that Device wrappers reach, each from
\* one wrapper: no failure of createDevice(), no move and no destruction strands
\* one or destroys one that is still held (device.cpp:1807-1815, 1983-2003).
NativeDevicesAreOwned ==
    LET holders == {d \in Devices : Valid(d)}
    IN  /\ Alive = {content[device[d]].native : d \in holders}
        /\ \A d, e \in holders :
             d # e => content[device[d]].native # content[device[e]].native

\* vkCreateDevice() is asked for exactly the requested extensions and features
\* the GPU supports: every required one, no unsupported one, none that was not
\* requested, every one in a structure of the chain, and no structure whose
\* version was not observed (logical-device.md: "only explicit requests become
\* effective").
EnablesWhatWasAsked ==
    \A k \in Alive :
        LET c == Capabilities[vulkan[k].gpu]
            r == vulkan[k].requested
            info == vulkan[k].info
        IN  /\ info.features = (r.required_features \cup r.optional_features) \cap c.features
            /\ r.required_features \subseteq info.features
            /\ info.chain \subseteq c.versions
            /\ info.extensions = Range(r.required_extensions \o r.optional_extensions)
                                    \cap Range(c.extensions)
            /\ Range(r.required_extensions) \subseteq info.extensions
            /\ ~PrerequisiteMissing(info.features)

=============================================================================

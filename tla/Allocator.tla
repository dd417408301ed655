------------------------------ MODULE Allocator ------------------------------
(***************************************************************************)
(* graphics/allocator.cpp on top of DeviceCreation: createAllocator()      *)
(* borrows an Instance, a candidate and a Device, checks that they belong  *)
(* together and that the requested version and flags are evidenced by what *)
(* they were created with, and owns one VmaAllocator.                      *)
(*                                                                         *)
(* vma is the side of VMA, the Vulkan Memory Allocator.  Its handles are   *)
(* used again once destroyed.                                              *)
(***************************************************************************)
EXTENDS DeviceCreation

CONSTANTS
    Allocators,             \* Allocator wrappers
    VmaHandles,             \* VmaAllocator handles
    NoHandle,               \* VK_NULL_HANDLE
    InstancePlans,          \* InstancePlan of every native instance, by its number
    AllocatorDescriptions   \* flags, and api_version or zero for none

VARIABLES
    allocator,      \* the handle in Allocator::implementation_, or NoHandle
    vma             \* what every VmaAllocator was created with

allocatorVars == <<allocator, vma>>
allVars == <<vars, allocatorVars>>

ASSUME AllocatorAssumption ==
    /\ NoHandle \notin VmaHandles
    /\ DOMAIN InstancePlans = 1..MaxInstances
    /\ \A n \in 1..MaxInstances : InstancePlans[n].api_version \in Nat
    /\ \A x \in AllocatorDescriptions : x.api_version \in Nat

-----------------------------------------------------------------------------
(* createAllocator                                                         *)

default_allocator_api_version == 10
Version(x) == IF x.api_version = 0 THEN default_allocator_api_version ELSE x.api_version

BufferDeviceAddress == <<12, "bufferDeviceAddress">>
Maintenance4 == <<13, "maintenance4">>

\* Variant: what the device supports and what it was created with are one.
EvidencedBySupport(flag, version, plan, extensions) ==
    LET enabled(name) == name \in plan.extensions
        has(feature) == feature \in Capabilities[plan.gpu].features
    IN  CASE flag = "externally_synchronized" -> TRUE
          [] flag = "dedicated_allocation" ->
               version >= 11 \/ (enabled("dedicated_allocation") /\ enabled("memory_requirements2"))
          [] flag = "bind_memory2" -> version >= 11 \/ enabled("bind_memory2")
          [] flag = "memory_budget" ->
               enabled("budget") /\ (version >= 11 \/ "properties2" \in extensions)
          [] flag = "buffer_device_address" ->
               has(BufferDeviceAddress) /\ (version >= 12 \/ enabled("buffer_device_address"))
          [] flag = "maintenance4" -> has(Maintenance4) /\ (version >= 13 \/ enabled("maintenance4"))
          [] OTHER -> FALSE

\* The prerequisites of a flag, by the enabled extensions and features of the
\* DevicePlan and the enabled extensions of the InstancePlan.
Evidenced(flag, version, plan, extensions) ==
    LET enabled(name) == name \in plan.extensions
        has(feature) == feature \in plan.features
    IN  CASE flag = "externally_synchronized" -> TRUE
          [] flag = "dedicated_allocation" ->
               version >= 11 \/ (enabled("dedicated_allocation") /\ enabled("memory_requirements2"))
          [] flag = "bind_memory2" -> version >= 11 \/ enabled("bind_memory2")
          [] flag = "memory_budget" ->
               enabled("budget") /\ (version >= 11 \/ "properties2" \in extensions)
          [] flag = "buffer_device_address" ->
               has(BufferDeviceAddress) /\ (version >= 12 \/ enabled("buffer_device_address"))
          [] flag = "maintenance4" -> has(Maintenance4) /\ (version >= 13 \/ enabled("maintenance4"))
          [] OTHER -> FALSE

InstancePlan(i) == InstancePlans[native[implementation[i]]]
DevicePlan(d) == content[device[d]].plan

\* Variant: any GPU of the Instance will do.
ParentMismatchAnyGpu(i, j, g, d) ==
    \/ implementation[j] # implementation[i]
    \/ ~DeviceCorrelated(d, i)

\* The candidate is GPU g of Instance j.  Handles of two Instances differ.
ParentMismatch(i, j, g, d) ==
    \/ implementation[j] # implementation[i]
    \/ ~DeviceCorrelated(d, i)
    \/ DevicePlan(d).gpu # g

UnsupportedVersion(i, d, x) ==
    \/ Version(x) \notin 10..13
    \/ Version(x) > InstancePlan(i).api_version
    \/ Version(x) > DevicePlan(d).api_version

AllocatorError(i, j, g, d, x) ==
    IF implementation[i] = NoImpl \/ ~Valid(d) THEN "invalid_parent"
    ELSE IF ParentMismatch(i, j, g, d) THEN "parent_mismatch"
    ELSE IF UnsupportedVersion(i, d, x) THEN "unsupported_api_version"
    ELSE IF \E flag \in x.flags :
              ~Evidenced(flag, Version(x), DevicePlan(d), InstancePlan(i).extensions)
      THEN "incompatible_flags"
    ELSE "success"

\* A borrowed candidate has a live parent.
MayCreateAllocator(j) == implementation[j] # NoImpl

\* Refused with AllocatorError(i, j, g, d, x) of some arguments; or
\* vkGetDeviceProcAddr is missing, memory is, or vmaCreateAllocator() fails,
\* which leaves nothing behind.
CreateAllocatorFails(j) ==
    /\ MayCreateAllocator(j)
    /\ UNCHANGED allVars

CreateAllocator(a, i, j, g, d, x) ==
    /\ MayCreateAllocator(j)
    /\ allocator[a] = NoHandle
    /\ AllocatorError(i, j, g, d, x) = "success"
    /\ \E h \in {h \in VmaHandles : vma[h] = Nothing} :
        /\ vma' = [vma EXCEPT ![h] =
             [native |-> content[device[d]].native, instance |-> native[implementation[i]],
              gpu |-> g, flags |-> x.flags, version |-> Version(x)]]
        /\ allocator' = [allocator EXCEPT ![a] = h]
    /\ UNCHANGED vars

-----------------------------------------------------------------------------
(* Allocator                                                               *)

\* The end of the displaced implementation destroys its VmaAllocator.
MoveAllocator(from, to) ==
    /\ from # to
    /\ vma' = [h \in VmaHandles |-> IF h = allocator[to] THEN Nothing ELSE vma[h]]
    /\ allocator' = [allocator EXCEPT ![to] = allocator[from], ![from] = NoHandle]
    /\ UNCHANGED vars

DestroyAllocator(a) ==
    /\ allocator[a] # NoHandle
    /\ vma' = [vma EXCEPT ![allocator[a]] = Nothing]
    /\ allocator' = [allocator EXCEPT ![a] = NoHandle]
    /\ UNCHANGED vars

Existing == {h \in VmaHandles : vma[h] # Nothing}

\* Everything else of the application, which destroys an Allocator before the
\* Device it was created from.
ParentStep ==
    /\ Next
    /\ \A h \in Existing : vulkan'[vma[h].native] = vulkan[vma[h].native]
    /\ UNCHANGED allocatorVars

AllocatorInit ==
    /\ Init
    /\ allocator = [a \in Allocators |-> NoHandle]
    /\ vma = [h \in VmaHandles |-> Nothing]

AllocatorNext ==
    \/ ParentStep
    \/ \E j \in Instances : CreateAllocatorFails(j)
    \/ \E a \in Allocators, i, j \in Instances, g \in Gpus, d \in Devices,
         x \in AllocatorDescriptions : CreateAllocator(a, i, j, g, d, x)
    \/ \E from, to \in Allocators : MoveAllocator(from, to)
    \/ \E a \in Allocators : DestroyAllocator(a)

AllocatorSpec == AllocatorInit /\ [][AllocatorNext]_allVars

-----------------------------------------------------------------------------
(* Properties                                                              *)

\* Every VmaAllocator is the one of exactly one wrapper, and was created for a
\* native device that still exists, on that device's GPU and native instance
\* and at a version neither exceeds, through every move of the wrappers of all
\* three (allocator.cpp:116-132, 193-199).
AllocatorsStandOnTheirParents ==
    LET holders == {a \in Allocators : allocator[a] # NoHandle}
    IN  /\ Existing = {allocator[a] : a \in holders}
        /\ \A a, b \in holders : a # b => allocator[a] # allocator[b]
        /\ \A h \in Existing :
            LET n == vulkan[vma[h].native]
            IN  /\ n.alive
                /\ n.instance = vma[h].instance /\ n.gpu = vma[h].gpu
                /\ vma[h].version <= InstancePlans[n.instance].api_version
                /\ vma[h].version <= Capabilities[n.gpu].api_version

\* No flag promises VMA what vkCreateDevice() and vkCreateInstance() were not
\* asked for: supported by the GPU is not enough (allocator.md:48-53).
FlagsAreEnabled ==
    \A h \in Existing :
        LET n == vulkan[vma[h].native]
            flags == vma[h].flags
            extensions == n.info.extensions
        IN  /\ "buffer_device_address" \in flags => BufferDeviceAddress \in n.info.features
            /\ "maintenance4" \in flags => Maintenance4 \in n.info.features
            /\ "memory_budget" \in flags =>
                /\ "budget" \in extensions
                /\ \/ InstancePlans[n.instance].api_version >= 11
                   \/ "properties2" \in InstancePlans[n.instance].extensions
            /\ vma[h].version = 10 =>
                /\ "bind_memory2" \in flags => "bind_memory2" \in extensions
                /\ "dedicated_allocation" \in flags =>
                    {"dedicated_allocation", "memory_requirements2"} \subseteq extensions

=============================================================================

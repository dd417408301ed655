----------------------------- MODULE MCAllocator -----------------------------
(***************************************************************************)
(* A small instance of DeviceCreation with Allocator for TLC.              *)
(***************************************************************************)
EXTENDS Allocator

Pointers == Core11("variablePointers")
PointersInBuffers == Core11("variablePointersStorageBuffer")
Geometry == <<10, "geometryShader">>
Counts == <<12, "drawIndirectCount">>

\* A device of Vulkan 1.2 with two families, and one of Vulkan 1.0 with one.
MCCapabilities ==
    [modern |-> [api_version |-> 12, extensions |-> <<"swapchain", "budget">>, wellformed |-> TRUE, versions |-> {11, 12},
                 features |-> {Geometry, Pointers, PointersInBuffers, BufferDeviceAddress},
                 families |-> <<2, 1>>],
     old |-> [api_version |-> 10, extensions |-> <<"swapchain">>, wellformed |-> TRUE, versions |-> {},
              features |-> {Geometry}, families |-> <<1>>]]

\* Made up: usable, with a repeated name, with a broken chain, with bits in a
\* structure that was not observed.
MCSnapshots ==
    {MCCapabilities.modern,
     [MCCapabilities.modern EXCEPT !.extensions = <<"budget", "budget">>],
     [MCCapabilities.modern EXCEPT !.wellformed = FALSE],
     [MCCapabilities.modern EXCEPT !.versions = {12}]}

Request(id, strength, priority) == [caller_id |-> id, strength |-> strength, priority |-> priority]

Plain ==
    [required_extensions |-> <<"swapchain">>, optional_extensions |-> <<>>,
     required_features |-> {}, optional_features |-> {}, wellformed |-> TRUE,
     queue_requests |-> {Request("a", "required", 1)}]

\* Three callers at two priorities.
Busy ==
    [Plain EXCEPT !.queue_requests = {Request("a", "required", 1), Request("b", "required", 2),
                                      Request("c", "required", 1)}]

\* Takes what is there.
Greedy ==
    [Plain EXCEPT !.optional_extensions = <<"budget">>,
                  !.optional_features = {Geometry, Pointers, PointersInBuffers, Counts,
                                        BufferDeviceAddress},
                  !.queue_requests = {Request("a", "required", 1), Request("b", "optional", 2)}]

MCDescriptions ==
    {Busy, Greedy, [Plain EXCEPT !.required_features = {Geometry}],
     [Plain EXCEPT !.wellformed = FALSE], [Plain EXCEPT !.optional_extensions = <<"swapchain">>],
     [Plain EXCEPT !.optional_extensions = <<"">>], [Plain EXCEPT !.required_extensions = <<"budget">>],
     [Plain EXCEPT !.required_features = {Geometry}, !.optional_features = {Geometry}],
     [Plain EXCEPT !.required_features = {Counts}],
     [Plain EXCEPT !.optional_features = {Pointers}]}

\* The first native instance is of Vulkan 1.2, the second of 1.0.
MCInstancePlans ==
    <<[api_version |-> 12, extensions |-> {}], [api_version |-> 10, extensions |-> {"properties2"}]>>

Asked(version, flags) == [api_version |-> version, flags |-> flags]

MCAllocatorDescriptions ==
    {Asked(0, {"memory_budget"}), Asked(11, {"memory_budget", "bind_memory2"}),
     Asked(12, {"buffer_device_address"}), Asked(0, {"dedicated_allocation"}),
     Asked(13, {}), Asked(14, {}), Asked(0, {"amd_coherent"})}

Symmetry ==
    Permutations(Instances) \cup Permutations(InstanceImpls)
    \cup Permutations(Devices) \cup Permutations(DeviceImpls)
    \cup Permutations(Allocators) \cup Permutations(VmaHandles)

=============================================================================

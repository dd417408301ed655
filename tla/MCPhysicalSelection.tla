------------------------- MODULE MCPhysicalSelection -------------------------
(***************************************************************************)
(* Small instances of PhysicalSelection for TLC.                           *)
(***************************************************************************)
EXTENDS PhysicalSelection

MCPlans ==
    {[api |-> v, extensions |-> e] : v \in {10, 11, 12, 13},
                                     e \in SUBSET {"properties2", "external_memory"}}

Native(v, u, t, e, families) ==
    [api |-> v, uuid |-> u, type |-> t, extensions |-> e, families |-> families]
Family(flags, n) == [flags |-> flags, count |-> n]
Universal == <<Family({"graphics", "compute"}, 1)>>
Split == <<Family({"graphics"}, 1), Family({"compute"}, 2)>>

Discrete == Native(13, "u1", "discrete", {"swapchain", "memory_budget"}, Split)
\* Reports the same UUID as Discrete: one GPU behind two drivers.
Twin == Native(11, "u1", "discrete", {"swapchain", "driver_properties"}, Universal)
Integrated == Native(12, "u2", "integrated", {"swapchain"}, Universal)
\* Vulkan 1.0: its UUID is only queryable through the extension.
Old == Native(10, "u2", "integrated", {}, Universal)
\* A driver that reports a UUID of zeroes.
Zeroes == Native(12, "u0", "cpu", {"swapchain"}, Split)

MCMachines ==
    {<<>>, <<Discrete>>, <<Old>>, <<Discrete, Integrated>>, <<Integrated, Old>>, <<Old, Zeroes>>,
     <<Twin, Discrete, Old>>, <<Integrated, Zeroes, Discrete>>}

Whatever ==
    [minimum_api_version |-> {}, required_device_uuid |-> {}, required_device_type |-> {},
     required_extensions |-> {}, optional_extensions |-> {}, required_queues |-> {},
     optional_queues |-> {}]
Queue(flags, n) == [flags |-> flags, count |-> n]

MCRequirements ==
    {Whatever,
     [Whatever EXCEPT !.minimum_api_version = {11}], [Whatever EXCEPT !.minimum_api_version = {12}],
     [Whatever EXCEPT !.required_device_uuid = {"u1"}], [Whatever EXCEPT !.required_device_uuid = {"u0"}],
     [Whatever EXCEPT !.required_device_type = {"integrated"}, !.optional_extensions = {"swapchain"}],
     [Whatever EXCEPT !.required_extensions = {"swapchain"}, !.optional_extensions = {"memory_budget"}],
     [Whatever EXCEPT !.required_queues = {Queue({"compute"}, 2)}],
     [Whatever EXCEPT !.required_queues = {Queue({"graphics"}, 1), Queue({"compute"}, 1)},
                 !.optional_queues = {Queue({"graphics", "compute"}, 1)}],
     [Whatever EXCEPT !.minimum_api_version = {0}], [Whatever EXCEPT !.required_extensions = {""}],
     [Whatever EXCEPT !.required_extensions = {"swapchain"}, !.optional_extensions = {"swapchain"}],
     [Whatever EXCEPT !.optional_queues = {Queue({}, 1)}],
     [Whatever EXCEPT !.required_queues = {Queue({"compute"}, 0)}]}

MCPolicies ==
    {NoPolicy} \cup {[NoPolicy EXCEPT !.explicit_uuid = {u}] : u \in {"u0", "u1", "u2"}}
    \cup {[NoPolicy EXCEPT !.uuid_order = order] :
             order \in {<<"u1", "u2">>, <<"u2", "u1">>, <<"u0", "u1">>, <<"u1", "u0", "u1">>}}
    \cup {[explicit_uuid |-> {"u1"}, uuid_order |-> <<"u2">>]}

=============================================================================

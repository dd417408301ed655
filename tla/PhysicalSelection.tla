-------------------------- MODULE PhysicalSelection --------------------------
(***************************************************************************)
(* graphics/physical_device.cpp: queryPhysicalDevices() observes the       *)
(* native devices of an Instance into capability snapshots, one device     *)
(* after the other, and selectPhysicalDevice() chooses among the resulting *)
(* candidates, or refuses to.                                              *)
(*                                                                         *)
(* What a snapshot holds depends on what may be queried: the API versions  *)
(* of the Instance and of the device and the extensions of either decide   *)
(* which structures are chained to the native queries.  An unqueried UUID  *)
(* keeps its zero-initialized value.                                       *)
(*                                                                         *)
(* An API version is ten times its major number plus its minor one, and    *)
(* zero is zero.  An optional value is a set of at most one value.         *)
(***************************************************************************)
EXTENDS Naturals, Sequences, FiniteSets, SequencesExt

CONSTANTS
    Plans,          \* InstancePlans: API version and the extensions that matter
    Machines,       \* the native devices of a host, in their enumeration order
    Uuids,          \* device UUIDs
    ZeroUuid,       \* the zero-initialized UUID
    Requirements,   \* PhysicalDeviceRequirements of the application
    Policies,       \* PhysicalDeviceSelectionPolicies of the application
    MaxSpan         \* bound: candidates in the span of a selection

Unnamed == ""        \* stands for every name that is empty or has an embedded NUL

ASSUME SelectionAssumption ==
    /\ ZeroUuid \in Uuids
    /\ MaxSpan \in Nat
    /\ \A p \in Plans : p \in [api : {10, 11, 12, 13}, extensions : SUBSET STRING]
    /\ \A m \in Machines : m \in Seq([api : {10, 11, 12, 13}, uuid : Uuids, type : STRING,
                                      extensions : SUBSET STRING,
                                      families : Seq([flags : SUBSET STRING, count : Nat])])
    /\ \A p \in Policies : p \in [explicit_uuid : SUBSET Uuids, uuid_order : Seq(Uuids)]
    /\ \A p \in Policies : \A u, v \in p.explicit_uuid : u = v
    /\ \A r \in Requirements : \A q \in r.required_queues \cup r.optional_queues : q.count \in Nat

VARIABLES
    plan,           \* the plan the Instance retains
    machine,        \* its native devices
    phase,          \* "enumerate", "observe", "inventory", "answered" or "failed"
    inventory,      \* the candidates appended so far
    chained,        \* <<device, structure>>: the pNext members queried so far
    asked,          \* what was asked of selectPhysicalDevice()
    result          \* what it returned

selectionVars == <<plan, machine, phase, inventory, chained, asked, result>>

-----------------------------------------------------------------------------
(* physical_device_query_route, physical_device_query_availability         *)

Route(p) ==
    IF p.api >= 11 THEN "core"
    ELSE IF "properties2" \in p.extensions THEN "khr" ELSE "unavailable"

\* The Instance and the device both have core version v.
CoreAvailable(p, device, v) == p.api >= v /\ device.api >= v

\* The structures that may be chained to the queries of this device.
Availability(p, device) ==
    IF Route(p) = "unavailable" THEN {}
    ELSE {s \in {"id", "driver", "features11", "features12", "features13"} :
            CASE s = "id" -> CoreAvailable(p, device, 11) \/ "external_memory" \in p.extensions
              [] s = "driver" -> \/ CoreAvailable(p, device, 12)
                                 \/ "driver_properties" \in device.extensions
              [] s = "features11" -> CoreAvailable(p, device, 11)
              [] s = "features12" -> CoreAvailable(p, device, 12)
              [] s = "features13" -> CoreAvailable(p, device, 13)}

BudgetAvailable(p, device) ==
    Route(p) # "unavailable" /\ "memory_budget" \in device.extensions

\* snapshot_device and the rest of the loop body of queryPhysicalDevices
Snapshot(p, k, device) ==
    LET available == Availability(p, device)
    IN  [device |-> k, api |-> device.api, type |-> device.type,
         extensions |-> device.extensions, families |-> device.families,
         id_properties_available |-> "id" \in available,
         device_uuid |-> IF "id" \in available THEN device.uuid ELSE ZeroUuid]

Chains(p, k, device) ==
    {<<k, s>> : s \in Availability(p, device)
                        \cup {s \in {"memory_budget"} : BudgetAvailable(p, device)}}

-----------------------------------------------------------------------------
(* evaluatePhysicalDevice                                                  *)

InvalidRequirements(r) ==
    \/ 0 \in r.minimum_api_version
    \/ Unnamed \in r.required_extensions \cup r.optional_extensions
    \/ r.required_extensions \cap r.optional_extensions # {}
    \/ \E q \in r.required_queues \cup r.optional_queues : q.flags = {} \/ q.count = 0

\* Variant: the zero UUID of a snapshot without ID properties is compared.
MatchesUnavailableUuid(c, uuid) == c.device_uuid = uuid

MatchesAvailableUuid(c, uuid) == c.id_properties_available /\ c.device_uuid = uuid

QueueSatisfies(family, q) == q.flags \subseteq family.flags /\ family.count >= q.count
HasQueue(c, q) == \E f \in DOMAIN c.families : QueueSatisfies(c.families[f], q)

\* One decision per explicit requirement; only required ones decide.
Decisions(c, r) ==
    {[kind |-> "api_version", required |-> TRUE, supported |-> c.api >= v] :
        v \in r.minimum_api_version}
    \cup {[kind |-> "uuid", required |-> TRUE, supported |-> MatchesAvailableUuid(c, u)] :
            u \in r.required_device_uuid}
    \cup {[kind |-> "type", required |-> TRUE, supported |-> c.type = t] :
            t \in r.required_device_type}
    \cup {[kind |-> "extension", required |-> e \in r.required_extensions,
           supported |-> e \in c.extensions] :
            e \in r.required_extensions \cup r.optional_extensions}
    \cup {[kind |-> "queue", required |-> TRUE, supported |-> HasQueue(c, q)] :
            q \in r.required_queues}
    \cup {[kind |-> "queue", required |-> FALSE, supported |-> HasQueue(c, q)] :
            q \in r.optional_queues}

Matches(c, r) == \A d \in Decisions(c, r) : d.required => d.supported

-----------------------------------------------------------------------------
(* selectPhysicalDevice                                                    *)

Selected(c, reason) == [kind |-> "selected", device |-> c.device, reason |-> reason]
Refused(error) == [kind |-> error, device |-> 0, reason |-> "none"]

InvalidPolicy(r, p) ==
    \/ p.explicit_uuid # {} /\ p.uuid_order # <<>>
    \/ /\ p.explicit_uuid # {} /\ r.required_device_uuid # {}
       /\ p.explicit_uuid # r.required_device_uuid
    \/ ~IsInjective(p.uuid_order)

\* The loops that push back what passes a test: the elements at these places.
Gathered(seq, places) ==
    LET gathered[n \in 0..Len(seq)] ==
            IF n = 0 THEN <<>>
            ELSE IF n \in places THEN Append(gathered[n - 1], seq[n]) ELSE gathered[n - 1]
    IN  gathered[Len(seq)]

WithUuid(matches, uuid) ==
    Gathered(matches, {k \in DOMAIN matches : MatchesAvailableUuid(matches[k], uuid)})

\* The one candidate, or what it means that there is not exactly one.
Sole(matches, reason) ==
    IF matches = <<>> THEN Refused("no_match")
    ELSE IF Len(matches) # 1 THEN Refused("ambiguous_match")
    ELSE Selected(matches[1], reason)

\* The first UUID of the order that any match has decides.
ByOrder(matches, order) ==
    LET hits == {k \in DOMAIN order : WithUuid(matches, order[k]) # <<>>}
    IN  IF hits = {} THEN Refused("no_match")
        ELSE Sole(WithUuid(matches, order[CHOOSE k \in hits : \A j \in hits : k <= j]), "uuid_order")

Select(candidates, r, p) ==
    LET matches == Gathered(candidates, {k \in DOMAIN candidates : Matches(candidates[k], r)})
    IN  IF InvalidRequirements(r) \/ InvalidPolicy(r, p) THEN Refused("invalid_requirements")
        ELSE IF matches = <<>> THEN Refused("no_match")
        ELSE IF p.explicit_uuid # {}
          THEN Sole(WithUuid(matches, CHOOSE u \in p.explicit_uuid : TRUE), "explicit_uuid")
        ELSE IF p.uuid_order # <<>> THEN ByOrder(matches, p.uuid_order)
        ELSE Sole(matches, "sole_match")

\* The overload for one candidate the caller has already chosen.
SelectOne(c, r) ==
    IF InvalidRequirements(r) THEN Refused("invalid_requirements")
    ELSE IF ~Matches(c, r) THEN Refused("no_match")
    ELSE Selected(c, "explicit_candidate")

-----------------------------------------------------------------------------

NoPolicy == [explicit_uuid |-> {}, uuid_order |-> <<>>]
NotAsked == [kind |-> "nothing"]

SelectionInit ==
    /\ plan \in Plans
    /\ machine \in Machines
    /\ phase = "enumerate"
    /\ inventory = <<>>
    /\ chained = {}
    /\ asked = NotAsked
    /\ result = Refused("none")

Enumerate ==
    /\ phase = "enumerate"
    /\ phase' = "observe"
    /\ UNCHANGED <<plan, machine, inventory, chained, asked, result>>

\* vkEnumeratePhysicalDevices or, for some device,
\* vkEnumerateDeviceExtensionProperties failed: the inventory is dropped.
QueryFails ==
    /\ \/ phase = "enumerate"
       \/ phase = "observe" /\ Len(inventory) < Len(machine)
    /\ phase' = "failed"
    /\ inventory' = <<>>
    /\ UNCHANGED <<plan, machine, chained, asked, result>>

Observe ==
    LET k == Len(inventory) + 1
    IN  /\ phase = "observe" /\ k <= Len(machine)
        /\ inventory' = Append(inventory, Snapshot(plan, k, machine[k]))
        /\ chained' = chained \cup Chains(plan, k, machine[k])
        /\ UNCHANGED <<plan, machine, phase, asked, result>>

QueryReturns ==
    /\ phase = "observe" /\ Len(inventory) = Len(machine)
    /\ phase' = "inventory"
    /\ UNCHANGED <<plan, machine, inventory, chained, asked, result>>

\* Candidates are copyable: a span may hold any of them, in any order, twice.
Spans == UNION {[1..n -> DOMAIN inventory] : n \in 0..MaxSpan}
CandidatesOf(span) == [k \in DOMAIN span |-> inventory[span[k]]]

SelectAmong(span, r, p) ==
    /\ phase = "inventory"
    /\ phase' = "answered"
    /\ asked' = [kind |-> "span", span |-> span, requirements |-> r, policy |-> p]
    /\ result' = Select(CandidatesOf(span), r, p)
    /\ UNCHANGED <<plan, machine, inventory, chained>>

SelectChosen(k, r) ==
    /\ phase = "inventory"
    /\ phase' = "answered"
    /\ asked' = [kind |-> "chosen", span |-> <<k>>, requirements |-> r, policy |-> NoPolicy]
    /\ result' = SelectOne(inventory[k], r)
    /\ UNCHANGED <<plan, machine, inventory, chained>>

SelectionNext ==
    \/ Enumerate
    \/ QueryFails
    \/ Observe
    \/ QueryReturns
    \/ \E span \in Spans, r \in Requirements, p \in Policies : SelectAmong(span, r, p)
    \/ \E k \in DOMAIN inventory, r \in Requirements : SelectChosen(k, r)

SelectionSpec == SelectionInit /\ [][SelectionNext]_selectionVars

-----------------------------------------------------------------------------
(* Properties                                                              *)

\* The device's UUID was queried and is uuid.
Identified(k, uuid) == <<k, "id">> \in chained /\ machine[k].uuid = uuid

\* The native device meets every explicit required criterion; a UUID that was
\* never queried identifies nothing (physical_device.hpp:134-135).
Meets(k, r) ==
    /\ \A v \in r.minimum_api_version : machine[k].api >= v
    /\ \A u \in r.required_device_uuid : Identified(k, u)
    /\ r.required_device_type \subseteq {machine[k].type}
    /\ r.required_extensions \subseteq machine[k].extensions
    /\ \A q \in r.required_queues :
         \E f \in DOMAIN machine[k].families :
            /\ q.flags \subseteq machine[k].families[f].flags
            /\ q.count <= machine[k].families[f].count

\* The places of the span the caller's policy leaves to choose from.
Eligible(span, r, p) ==
    LET fits == {i \in DOMAIN span : Meets(span[i], r)}
        named(u) == {i \in fits : Identified(span[i], u)}
        first == {k \in DOMAIN p.uuid_order :
                    named(p.uuid_order[k]) # {} /\ \A j \in 1..k - 1 : named(p.uuid_order[j]) = {}}
    IN  IF asked.kind = "chosen" \/ p = NoPolicy THEN fits
        ELSE UNION ({named(u) : u \in p.explicit_uuid} \cup {named(p.uuid_order[k]) : k \in first})

\* The answer is a function of the native devices and of what the caller asked
\* for, and of nothing else: a device is selected exactly when it is the only
\* place the requirements and the policy leave, none is when they leave none,
\* and more than one is an ambiguity.  The order of the span, optional
\* requirements, the zero UUID of a device whose UUID could not be queried and
\* the extensions of the Instance never decide (physical_device.cpp:705-842;
\* "enumeration order is never a fallback", physical_device.hpp:343-344).
SelectionIsDetermined ==
    LET r == asked.requirements
        p == asked.policy
        places == Eligible(asked.span, r, p)
    IN  phase = "answered" =>
          IF InvalidRequirements(r) \/ InvalidPolicy(r, p) THEN result.kind = "invalid_requirements"
          ELSE /\ (result.kind = "no_match") <=> (places = {})
               /\ (result.kind = "ambiguous_match") <=> (Cardinality(places) > 1)
               /\ (result.kind = "selected") <=>
                    \E i \in places : places = {i} /\ result.device = asked.span[i]

\* "The pNext members used by the native observation path are valid only when
\* both the parent Instance/device API versions and any enabling extension
\* permit them" (physical_device_query.hpp:25-29).  Vulkan provides
\* VkPhysicalDeviceVulkan11Features, like the structures of 1.2, since 1.2.
ChainsArePermitted ==
    \A k \in DOMAIN machine : \A s \in {"features11", "features12"} :
        <<k, s>> \in chained => plan.api >= 12 /\ machine[k].api >= 12

=============================================================================

--------------------------- MODULE InstanceCreation ---------------------------
(***************************************************************************)
(* graphics/instance.cpp: queryInstanceCapabilities(), resolveInstance(),  *)
(* createInstance() with its unwinding, the moves and the end of Instance, *)
(* and the debug callback that native code calls meanwhile                 *)
(* (graphics_diagnostics.hpp).                                             *)
(*                                                                         *)
(* Names are naturals in the order of their strings.  A CallbackState is   *)
(* on the heap, and the address of a freed one is given to the next; the   *)
(* native instance keeps that address as pUserData.  Loader contexts and   *)
(* native instances are numbered by the call that made them.               *)
(***************************************************************************)
EXTENDS Integers, Sequences, FiniteSets, SequencesExt

CONSTANTS
    Instances,      \* Instance wrappers
    Addresses,      \* heap addresses of CallbackState
    NoAddress,      \* the null pointer, and a CallbackState that is not there
    Sinks, NoSink,  \* targets of DiagnosticSinkView; the view without a target
    Hosts,          \* loaders: version, extensions and layers as native queries list them
    Snapshots,      \* InstanceCapabilities the application made up
    Descriptions,   \* InstanceDescriptions of the application
    Repeated,       \* bound: those that are resolved again after a first one
    Messages,       \* what native code reports: severity, types, whether data came with it
    MaxInstances    \* bound: calls of createInstance()

Empty == 0          \* the empty name
Nul == 1            \* a name with an embedded NUL byte
DebugUtils == 3     \* VK_EXT_debug_utils
NoVersion == 99     \* an entry point or an api_version that is not there
DefaultVersion == 13

ASSUME InstanceAssumption ==
    /\ NoAddress \notin Addresses \cup Sinks \cup {NoSink} /\ NoSink \notin Sinks
    /\ Repeated \subseteq Descriptions
    /\ MaxInstances \in Nat
    /\ \A c \in Hosts \cup Snapshots :
        c.version \in Nat /\ c.extensions \in Seq(Nat) /\ c.layers \in Seq(Nat)
    /\ \A d \in Descriptions :
        /\ d.api_version \in Nat /\ d.debug_utils \in {"disabled", "optional", "required"}
        /\ d.required_extensions \in Seq(Nat) /\ d.optional_extensions \in Seq(Nat)
        /\ d.required_layers \in Seq(Nat) /\ d.optional_layers \in Seq(Nat)

VARIABLES
    host,           \* the loader of this machine
    capabilities,   \* the last snapshot queryInstanceCapabilities() returned
    plan,           \* the InstancePlan variable of the application
    asked,          \* what resolveInstance() was last asked, and its answer
    held,           \* Instance::implementation_: the members an Impl owns
    retained,       \* and the plan it copied
    work,           \* the createInstance() or the destruction that is under way
    sinkOf,         \* CallbackState::sink by address
    contexts,       \* the loader contexts that exist
    vulkan,         \* native instances, in the order of the calls
    delivered       \* the event a sink was last given

resolveVars == <<host, capabilities, plan, asked>>
nativeVars == <<sinkOf, contexts, vulkan>>
vars == <<resolveVars, held, retained, work, nativeVars, delivered>>

-----------------------------------------------------------------------------
(* queryInstanceCapabilities                                               *)

\* The names of a set in the order std::sort and std::map give them.
Sorted(names) ==
    [k \in 1..Cardinality(names) |->
        CHOOSE name \in names : Cardinality({n \in names : n <= name}) = k]

Canonical(names) == Sorted(Range(names))

Queried(h) ==
    [version |-> IF h.version = NoVersion THEN 10 ELSE h.version,
     extensions |-> Canonical(h.extensions), layers |-> Canonical(h.layers)]

-----------------------------------------------------------------------------
(* resolveInstance                                                         *)

NoEntries == [error |-> "success", entries |-> <<>>]

\* The map with this entry, added or replaced.
Emplaced(entries, name, entry) ==
    [n \in DOMAIN entries \cup {name} |-> IF n = name THEN entry ELSE entries[n]]

\* Variant: the strength declared last stands.
AddRequirementLastWins(r, name, strength, derived) ==
    IF r.error # "success" THEN r
    ELSE IF name \in {Nul, Empty} THEN [r EXCEPT !.error = "invalid_description"]
    ELSE [r EXCEPT !.entries = Emplaced(@, name, [strength |-> strength, derived |-> derived])]

AddRequirement(r, name, strength, derived) ==
    LET entry == [strength |-> strength, derived |-> derived]
        existing == r.entries[name]
    IN  IF r.error # "success" THEN r
        ELSE IF name \in {Nul, Empty} THEN [r EXCEPT !.error = "invalid_description"]
        ELSE IF name \notin DOMAIN r.entries THEN [r EXCEPT !.entries = Emplaced(@, name, entry)]
        ELSE IF existing.strength = strength
          THEN [r EXCEPT !.entries[name] = [strength |-> strength,
                                            derived |-> existing.derived /\ derived]]
        ELSE IF ~existing.derived /\ derived /\ existing.strength = "required" THEN r
        ELSE IF existing.derived /\ ~derived /\ strength = "required"
          THEN [r EXCEPT !.entries[name] = entry]
        ELSE [r EXCEPT !.error = "contradictory_requirements"]

\* The loop over one list of add_explicit_requirements.
AddAll(r, names, strength) ==
    LET added[n \in 0..Len(names)] ==
            IF n = 0 THEN r ELSE AddRequirement(added[n - 1], names[n], strength, FALSE)
    IN  added[Len(names)]

Explicit(required, optional) ==
    AddAll(AddAll(NoEntries, required, "required"), optional, "optional")

Layers(d) == Explicit(d.required_layers, d.optional_layers)

\* The extensions, and Debug Utils as its mode wants it.
Extensions(d) ==
    LET explicit == Explicit(d.required_extensions, d.optional_extensions)
    IN  IF d.debug_utils = "disabled" THEN explicit
        ELSE AddRequirement(explicit, DebugUtils, d.debug_utils, TRUE)

EffectiveVersion(d) == IF d.api_version = NoVersion THEN DefaultVersion ELSE d.api_version

Missing(r, available) ==
    \E name \in DOMAIN r.entries \ Range(available) : r.entries[name].strength = "required"

ResolveError(d, c) ==
    LET explicit == Explicit(d.required_extensions, d.optional_extensions)
    IN  IF ~d.wellformed \/ d.api_version = 0 THEN "invalid_description"
        ELSE IF EffectiveVersion(d) > c.version THEN "unsupported_api_version"
        ELSE IF explicit.error # "success" THEN explicit.error
        ELSE IF Layers(d).error # "success" THEN Layers(d).error
        ELSE IF Nul \in Range(c.extensions \o c.layers) THEN "invalid_description"
        ELSE IF Extensions(d).error # "success" THEN Extensions(d).error
        ELSE IF Missing(Extensions(d), c.extensions) THEN "missing_required_extension"
        ELSE IF Missing(Layers(d), c.layers) THEN "missing_required_layer"
        ELSE "success"

Reason(entry, accepted) ==
    IF ~accepted THEN "unsupported"
    ELSE IF entry.derived THEN "derived_prerequisite"
    ELSE IF entry.strength = "optional" THEN "supported" ELSE "requested"

\* One decision per name, in the order of std::map.
Decisions(r, available) ==
    LET Decide(name) == [name |-> name, strength |-> r.entries[name].strength,
                         derived |-> r.entries[name].derived,
                         reason |-> Reason(r.entries[name], name \in Range(available))]
        names == Sorted(DOMAIN r.entries)
    IN  [k \in DOMAIN names |-> Decide(names[k])]

\* The names that the same loop pushes back when it accepts them.
Enabled(decisions) ==
    LET enabled[n \in 0..Len(decisions)] ==
            IF n = 0 THEN <<>>
            ELSE IF decisions[n].reason = "unsupported" THEN enabled[n - 1]
            ELSE Append(enabled[n - 1], decisions[n].name)
    IN  enabled[Len(decisions)]

DebugUtilsEnabled(d, extensions) ==
    d.debug_utils # "disabled" /\ DebugUtils \in Range(extensions)

\* InstancePlan, without the copies of the two inputs.
Plan(d, c) ==
    LET extensionDecisions == Decisions(Extensions(d), c.extensions)
        layerDecisions == Decisions(Layers(d), c.layers)
        enabled == DebugUtilsEnabled(d, Enabled(extensionDecisions))
    IN  [version |-> EffectiveVersion(d), isDefault |-> d.api_version = NoVersion,
         extensions |-> Enabled(extensionDecisions), layers |-> Enabled(layerDecisions),
         extensionDecisions |-> extensionDecisions, layerDecisions |-> layerDecisions,
         debug_utils_enabled |-> enabled,
         debug_utils_derived |-> enabled /\ \E k \in DOMAIN extensionDecisions :
                                    /\ extensionDecisions[k].name = DebugUtils
                                    /\ extensionDecisions[k].derived]

\* The members that a move leaves empty; version and flags are copied.
MovedFrom(p) == [p EXCEPT !.extensions = <<>>, !.layers = <<>>,
                          !.extensionDecisions = <<>>, !.layerDecisions = <<>>]

NoPlan == [extensions |-> <<Nul>>]
NoSnapshot == [version |-> 0]
NoQuestion == [error |-> "none"]

-----------------------------------------------------------------------------
(* The debug callback                                                      *)

\* native_category_order; other bits are unknown to the adapter.
CategoryOrder == <<"general", "validation", "performance", "device_address_binding">>

\* map_vulkan_message_types accepts the mask.
Mappable(types) == types # {} /\ types \subseteq Range(CategoryOrder)

\* canonical_categories: the loop over native_category_order.
Categories(types) ==
    LET taken[n \in 0..Len(CategoryOrder)] ==
            IF n = 0 THEN <<>>
            ELSE IF CategoryOrder[n] \in types THEN Append(taken[n - 1], CategoryOrder[n])
            ELSE taken[n - 1]
    IN  taken[Len(CategoryOrder)]

\* callback_severity, translate_severity: the severities that are known.
Severities == {"verbose", "info", "warning", "error"}

\* instance_debug_callback passes the message on to the sink.
Translated(message) ==
    message.data /\ Mappable(message.types) /\ message.severity \in Severities

Event(message) == [severity |-> message.severity, categories |-> Categories(message.types)]

NoEvent == [sink |-> NoSink]

-----------------------------------------------------------------------------

Nothing == [context |-> 0, callback |-> NoAddress, instance |-> 0, messenger |-> 0]
Idle == [doing |-> "nothing"]

Init ==
    /\ host \in Hosts
    /\ capabilities = NoSnapshot
    /\ plan = NoPlan
    /\ asked = NoQuestion
    /\ held = [i \in Instances |-> Nothing]
    /\ retained = [i \in Instances |-> NoPlan]
    /\ work = Idle
    /\ sinkOf = [a \in Addresses |-> NoAddress]
    /\ contexts = {}
    /\ vulkan = <<>>
    /\ delivered = NoEvent

\* The adapter returned a snapshot (a failure leaves the caller what it had).
Query ==
    /\ vulkan = <<>>        \* a bound: the machine does not change
    /\ capabilities' = Queried(host)
    /\ asked' = NoQuestion /\ delivered' = NoEvent
    /\ UNCHANGED <<host, plan, held, retained, work, nativeVars>>

Resolve(d, c) ==
    /\ work = Idle
    /\ (plan = NoPlan /\ asked = NoQuestion) \/ d \in Repeated
    /\ asked' = [error |-> ResolveError(d, c), description |-> d, capabilities |-> c]
    /\ plan' = IF asked'.error = "success" THEN Plan(d, c) ELSE plan
    /\ delivered' = NoEvent
    /\ UNCHANGED <<host, capabilities, held, retained, work, nativeVars>>

ResolveQueried(d) == capabilities # NoSnapshot /\ Resolve(d, capabilities)

Quiet == asked' = NoQuestion /\ delivered' = NoEvent

\* The application moves its plan to somewhere else and keeps the variable.
MovePlanAway ==
    /\ work = Idle /\ plan # NoPlan
    /\ plan' = MovedFrom(plan)
    /\ Quiet
    /\ UNCHANGED <<host, capabilities, held, retained, work, nativeVars>>

-----------------------------------------------------------------------------
(* createInstance, one fallible call at a time                             *)

Number == work.own.context      \* of the call under way

\* Any plan is taken, one that was moved from too: only its counts are looked at.
\* The context is there; a loader that cannot be opened changes nothing.
Create(i, sink) ==
    /\ work = Idle /\ held[i] = Nothing
    /\ plan # NoPlan
    /\ Len(vulkan) < MaxInstances
    /\ LET n == Len(vulkan) + 1
       IN  /\ contexts' = contexts \cup {n}
           /\ work' = [doing |-> "create", at |-> "callback", wrapper |-> i, sink |-> sink,
                       own |-> [Nothing EXCEPT !.context = n]]
    /\ vulkan' = Append(vulkan, [phase |-> "none"])
    /\ Quiet
    /\ UNCHANGED <<host, capabilities, plan, held, retained, sinkOf>>

Creating(at) == work.doing = "create" /\ work.at = at

MakeCallbackState ==
    /\ Creating("callback")
    /\ \E a \in {a \in Addresses : sinkOf[a] = NoAddress} :
        /\ sinkOf' = [sinkOf EXCEPT ![a] = work.sink]
        /\ work' = [work EXCEPT !.at = "instance", !.own.callback = a]
    /\ Quiet
    /\ UNCHANGED <<host, capabilities, plan, held, retained, contexts, vulkan>>

\* vkCreateInstance() begins.  The names are those of the plan's lists, and its flag
\* alone decides that messenger information is chained, which native code may use
\* during this call and during vkDestroyInstance().
CallNative ==
    /\ Creating("instance")
    /\ vulkan' = [vulkan EXCEPT ![Number] =
         [phase |-> "creating", version |-> plan.version, extensions |-> plan.extensions,
          layers |-> plan.layers, chained |-> plan.debug_utils_enabled, messenger |-> FALSE,
          userData |-> work.own.callback, sink |-> work.sink]]
    /\ work' = [work EXCEPT !.at = "native"]
    /\ Quiet
    /\ UNCHANGED <<host, capabilities, plan, held, retained, sinkOf, contexts>>

NativeReturns ==
    /\ Creating("native")
    /\ Range(plan.extensions) \subseteq Range(host.extensions)
    /\ Range(plan.layers) \subseteq Range(host.layers)
    /\ vulkan' = [vulkan EXCEPT ![Number].phase = "alive"]
    /\ work' = [work EXCEPT !.own.instance = Number,
                            !.at = IF plan.debug_utils_enabled THEN "messenger" ELSE "impl"]
    /\ Quiet
    /\ UNCHANGED <<host, capabilities, plan, held, retained, sinkOf, contexts>>

MakeMessenger ==
    /\ Creating("messenger")
    /\ vulkan' = [vulkan EXCEPT ![Number].messenger = TRUE]
    /\ work' = [work EXCEPT !.own.messenger = Number, !.at = "impl"]
    /\ Quiet
    /\ UNCHANGED <<host, capabilities, plan, held, retained, sinkOf, contexts>>

MakeImpl ==
    /\ Creating("impl")
    /\ held' = [held EXCEPT ![work.wrapper] = work.own]
    /\ retained' = [retained EXCEPT ![work.wrapper] = plan]
    /\ work' = Idle
    /\ Quiet
    /\ UNCHANGED <<host, capabilities, plan, nativeVars>>

Ending(own) == [doing |-> "destroy", own |-> own]

\* No memory for a CallbackState or an Impl, or a native call failed: what was
\* made so far goes.
Unwind ==
    /\ \E at \in {"callback", "native", "messenger", "impl"} : Creating(at)
    /\ vulkan' = IF work.at = "native" THEN [vulkan EXCEPT ![Number] = [phase |-> "none"]]
                 ELSE vulkan
    /\ work' = Ending(work.own)
    /\ Quiet
    /\ UNCHANGED <<host, capabilities, plan, held, retained, sinkOf, contexts>>

-----------------------------------------------------------------------------
(* The end of an Impl, or of the locals of createInstance(), which are     *)
(* declared in the same order                                              *)

\* Variant: CallbackState is declared after what calls it.
MemberOrderCallbackLast == <<"context", "instance", "messenger", "callback">>

\* Instance::Impl; members are destroyed from the last to the first.
MemberOrder == <<"context", "callback", "instance", "messenger">>

Present(own, member) == own[member] # Nothing[member]
Destroying(member) ==
    /\ work.doing = "destroy"
    /\ \E k \in DOMAIN MemberOrder :
        /\ MemberOrder[k] = member /\ Present(work.own, member)
        /\ \A j \in DOMAIN MemberOrder : j > k => ~Present(work.own, MemberOrder[j])

Without(member) == [work EXCEPT !.own[member] = Nothing[member]]

DestroyMessenger ==
    /\ Destroying("messenger")
    /\ vulkan' = [vulkan EXCEPT ![Number].messenger = FALSE]
    /\ work' = Without("messenger")
    /\ Quiet
    /\ UNCHANGED <<host, capabilities, plan, held, retained, sinkOf, contexts>>

\* vkDestroyInstance() begins, and returns.
DestroyNative ==
    /\ Destroying("instance")
    /\ IF vulkan[work.own.instance].phase = "alive"
       THEN /\ vulkan' = [vulkan EXCEPT ![work.own.instance].phase = "destroying"]
            /\ UNCHANGED work
       ELSE /\ vulkan' = [vulkan EXCEPT ![work.own.instance] = [phase |-> "none"]]
            /\ work' = Without("instance")
    /\ Quiet
    /\ UNCHANGED <<host, capabilities, plan, held, retained, sinkOf, contexts>>

FreeCallbackState ==
    /\ Destroying("callback")
    /\ sinkOf' = [sinkOf EXCEPT ![work.own.callback] = NoAddress]
    /\ work' = Without("callback")
    /\ Quiet
    /\ UNCHANGED <<host, capabilities, plan, held, retained, contexts, vulkan>>

\* The first member is the last to go.
CloseContext ==
    /\ Destroying("context")
    /\ contexts' = contexts \ {Number}
    /\ work' = Idle
    /\ Quiet
    /\ UNCHANGED <<host, capabilities, plan, held, retained, sinkOf, vulkan>>

\* Variant: the displaced implementation is released, not destroyed.
MoveInstanceReleasing(from, to) ==
    /\ from # to /\ work = Idle
    /\ held' = [held EXCEPT ![to] = held[from], ![from] = Nothing]
    /\ retained' = [retained EXCEPT ![to] = retained[from], ![from] = NoPlan]
    /\ Quiet
    /\ UNCHANGED <<host, capabilities, plan, work, nativeVars>>

\* The wrapper has its new implementation before the displaced one is destroyed.
MoveInstance(from, to) ==
    /\ from # to /\ work = Idle
    /\ held' = [held EXCEPT ![to] = held[from], ![from] = Nothing]
    /\ retained' = [retained EXCEPT ![to] = retained[from], ![from] = NoPlan]
    /\ work' = IF held[to] = Nothing THEN Idle ELSE Ending(held[to])
    /\ Quiet
    /\ UNCHANGED <<host, capabilities, plan, nativeVars>>

DestroyInstance(i) ==
    /\ held[i] # Nothing /\ work = Idle
    /\ held' = [held EXCEPT ![i] = Nothing]
    /\ retained' = [retained EXCEPT ![i] = NoPlan]
    /\ work' = Ending(held[i])
    /\ Quiet
    /\ UNCHANGED <<host, capabilities, plan, nativeVars>>

-----------------------------------------------------------------------------

\* Variant: the Impl refers to the plan of the caller.
PlanOfCaller(i) == IF held[i] = Nothing THEN NoPlan ELSE plan

\* Instance::plan()
PlanOf(i) == IF held[i] = Nothing THEN NoPlan ELSE retained[i]

Exists(n) == vulkan[n].phase # "none"
MayCallBack(n) ==
    /\ Exists(n)
    /\ \/ vulkan[n].messenger
       \/ vulkan[n].chained /\ vulkan[n].phase \in {"creating", "destroying"}

\* Native code reports; a message the adapter rejects, or finds no memory for,
\* reaches no sink.
Callback(n, message) ==
    LET sink == sinkOf[vulkan[n].userData]
    IN  /\ MayCallBack(n)
        /\ \/ delivered' = NoEvent
           \/ /\ Translated(message) /\ sink # NoSink
              /\ delivered' = [sink |-> sink, instance |-> n, message |-> message,
                               event |-> Event(message)]
        /\ asked' = NoQuestion
        /\ UNCHANGED <<host, capabilities, plan, held, retained, work, nativeVars>>

Next ==
    \/ Query
    \/ \E d \in Descriptions : ResolveQueried(d)
    \/ \E d \in Descriptions, c \in Snapshots : Resolve(d, c)
    \/ MovePlanAway
    \/ \E i \in Instances, sink \in Sinks \cup {NoSink} : Create(i, sink)
    \/ MakeCallbackState \/ CallNative \/ NativeReturns \/ MakeMessenger \/ MakeImpl
    \/ Unwind
    \/ DestroyMessenger \/ DestroyNative \/ FreeCallbackState \/ CloseContext
    \/ \E from, to \in Instances : MoveInstance(from, to)
    \/ \E i \in Instances : DestroyInstance(i)
    \/ \E n \in DOMAIN vulkan, message \in Messages : Callback(n, message)

Spec == Init /\ [][Next]_vars

-----------------------------------------------------------------------------
(* Properties                                                              *)

\* Whatever was moved, displaced or failed: whenever native code may call back,
\* during creation and destruction too, its pUserData is the live CallbackState
\* of that very instance, with the sink given to createInstance()
\* (instance_impl.hpp:18-24, diagnostics.md: "no callback may observe a dead
\* sink target through the adapter's own teardown").
UserDataIsLive ==
    \A n \in DOMAIN vulkan : MayCallBack(n) => sinkOf[vulkan[n].userData] = vulkan[n].sink

\* And the sink gets the severity and every category of the message once, or
\* nothing at all of a message that cannot be represented whole
\* (instance_query.hpp:40-43).
CallbacksReachTheirSink ==
    /\ UserDataIsLive
    /\ delivered # NoEvent =>
        /\ delivered.event.severity = delivered.message.severity
        /\ Range(delivered.event.categories) = delivered.message.types
        /\ IsInjective(delivered.event.categories)

\* Everything made in Vulkan or on the heap has one owner, a wrapper or the call
\* under way; it stands on what it needs, and nothing that has no owner is left
\* (instance.cpp:715-753, 643-651).
InstancesAreOwned ==
    LET owners == {held[i] : i \in Instances} \cup (IF work = Idle THEN {} ELSE {work.own})
        real == owners \ {Nothing}
        Owned(member) == {o[member] : o \in {o \in real : o[member] # Nothing[member]}}
    IN  /\ \A o, p \in real : o # p =>
            o.context # p.context /\ (o.callback # p.callback \/ o.callback = NoAddress)
        /\ \A i, j \in Instances : i # j => held[i] = Nothing \/ held[i] # held[j]
        /\ contexts = Owned("context")
        /\ {a \in Addresses : sinkOf[a] # NoAddress} = Owned("callback")
        /\ {n \in DOMAIN vulkan : vulkan[n].phase \in {"alive", "destroying"}} = Owned("instance")
        /\ {n \in DOMAIN vulkan : Exists(n) /\ vulkan[n].messenger} = Owned("messenger")
        /\ Owned("messenger") \subseteq Owned("instance")
        /\ Owned("instance") \subseteq contexts

\* The set of names d asks for with a strength.
Wanted(d, strength) ==
    Range(IF strength = "required" THEN d.required_extensions ELSE d.optional_extensions)
    \cup (IF d.debug_utils = strength THEN {DebugUtils} ELSE {})

\* resolveInstance() depends on the sets of names alone, never on their order or
\* repetition: it succeeds exactly when every name is well formed, none is
\* both required and optional, the policy on Debug Utils is not contradicted
\* and what is required is there; then each name asked for has one decision, in
\* canonical order, at its dominating strength, and precisely the available ones
\* are enabled (instance.cpp:168-217, 452-624).
PlansAreCanonical ==
    asked # NoQuestion =>
      LET d == asked.description
          c == asked.capabilities
          required == Wanted(d, "required")
          optional == Wanted(d, "optional")
          explicit == Range(d.required_extensions \o d.optional_extensions)
          layers == Range(d.required_layers \o d.optional_layers)
          contradicted ==
              \/ required \cap Range(d.optional_extensions) # {}
              \/ Range(d.required_layers) \cap Range(d.optional_layers) # {}
          possible ==
              /\ d.wellformed /\ EffectiveVersion(d) \in 1..c.version
              /\ {Empty, Nul} \cap (explicit \cup layers) = {}
              /\ Nul \notin Range(c.extensions \o c.layers)
              /\ ~contradicted
              /\ required \subseteq Range(c.extensions)
              /\ Range(d.required_layers) \subseteq Range(c.layers)
          Ascending(names) == \A j, k \in DOMAIN names : j < k => names[j] < names[k]
          NamesOf(decisions) == [k \in DOMAIN decisions |-> decisions[k].name]
          decided == plan.extensionDecisions
      IN  /\ asked.error = "success" <=> possible
          /\ asked.error = "contradictory_requirements" => contradicted
          /\ asked.error = "success" =>
              /\ Ascending(NamesOf(decided)) /\ Ascending(NamesOf(plan.layerDecisions))
              /\ Range(NamesOf(decided)) = required \cup optional
              /\ Range(NamesOf(plan.layerDecisions)) = layers
              /\ Ascending(plan.extensions) /\ Ascending(plan.layers)
              /\ Range(plan.extensions) = (required \cup optional) \cap Range(c.extensions)
              /\ Range(plan.layers) = layers \cap Range(c.layers)
              /\ \A k \in DOMAIN decided :
                    /\ decided[k].strength = "required" <=> decided[k].name \in required
                    /\ decided[k].derived <=> decided[k].name \notin explicit
              /\ plan.debug_utils_derived <=>
                    plan.debug_utils_enabled /\ DebugUtils \notin explicit

\* Instance::plan() is "the effective configuration used for native creation" and
\* "not the caller's plan" (instance.hpp:254-258): long after the caller assigned to
\* or moved its own plan, and whatever was moved, displaced or unwound in between,
\* the wrapper that holds a native instance answers with the version, extensions
\* and layers that very instance was made with, and has a messenger exactly when
\* the plan says so.  Queries, devices and allocators decide by it
\* (physical_device.cpp:522, allocator.cpp:128, 160).
RetainedPlansAreEffective ==
    \A i \in {i \in Instances : held[i] # Nothing} :
        LET made == vulkan[held[i].instance]
            told == PlanOf(i)
        IN  /\ made.version = told.version
            /\ made.extensions = told.extensions /\ made.layers = told.layers
            /\ made.messenger <=> told.debug_utils_enabled

\* Vulkan takes messenger information, chained or to make a messenger, only for an
\* instance with VK_EXT_debug_utils.  createInstance() takes the plan's word for
\* that, a plan that "cannot be forged or changed before native apply"
\* (instance.hpp:112-114), and "performs only structural/ABI checks"
\* (instance.cpp:674-676).  The code does not keep it: a move empties the
\* extensions and leaves the flag (instance.hpp:123-124).
DebugUtilsIsPermitted ==
    \A n \in {n \in DOMAIN vulkan : Exists(n)} :
        vulkan[n].chained \/ vulkan[n].messenger => DebugUtils \in Range(vulkan[n].extensions)

=============================================================================

----------------------------- MODULE MCImageView -----------------------------
(***************************************************************************)
(* A small instance of Resources with ImageView for TLC: two wrappers of   *)
(* each kind, handles they compete for, sizes and counts up to the largest *)
(* one.                                                                    *)
(***************************************************************************)
EXTENDS ImageView, TLC

CONSTANTS a1, a2, d1, d2

\* Two allocators, of two devices.
MCDeviceOf == (a1 :> d1) @@ (a2 :> d2)

Described(size, access) ==
    [size |-> size, usage |-> {"transfer_src"}, allowed |-> TRUE, access |-> access,
     host_visible |-> FALSE]

MCBufferDescriptions ==
    {Described(MaxSize, "host_access"), Described(1, "no_host_access"), Described(0, "any"),
     [Described(1, "any") EXCEPT !.allowed = FALSE]}

Pixels(dimensions, levels, layers) ==
    [refused |-> "none", dimensions |-> dimensions, format |-> "color",
     mip_levels |-> levels, array_layers |-> layers, usage |-> {"sampled", "transfer_dst"}]

MCImageDescriptions ==
    {[refused |-> "invalid_description"], Pixels("2d", 3, 2),
     [Pixels("3d", 1, 1) EXCEPT !.usage = {"storage"}]}

View(view_type, level, levels, layer, layers) ==
    [view_type |-> view_type, format |-> "color", components |-> "identity",
     range |-> [aspects |-> {"color"}, level |-> level, levels |-> levels,
                layer |-> layer, layers |-> layers]]

MCViewDescriptions ==
    {View("2d", 1, RemainingCount, 1, RemainingCount), View("2d", 0, 3, 0, 2),
     View("2d_array", 2, 2, 0, 2), View("2d_array", 0, 0, 0, 1), View("cube", 0, 1, 0, 1),
     View("3d", 0, RemainingCount, 0, RemainingCount),
     [View("3d", 0, 1, 0, 1) EXCEPT !.components = "swizzled"],
     [View("2d", 0, 1, 0, 1) EXCEPT !.range.aspects = {"depth"}]}

Symmetry ==
    Permutations(Buffers) \cup Permutations(Images) \cup Permutations(Handles)
    \cup Permutations(Views) \cup Permutations(ViewHandles)
=============================================================================

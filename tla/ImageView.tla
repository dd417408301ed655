------------------------------ MODULE ImageView ------------------------------
(***************************************************************************)
(* graphics/image_view.cpp on top of Resources: createImageView() resolves *)
(* the requested range against the Image, and the wrapper owns one         *)
(* VkImageView.  Images are correlated by their native handles, which are  *)
(* used again once an Image is destroyed.                                  *)
(*                                                                         *)
(* A count is an unsigned integer of which RemainingCount is the largest.  *)
(* createImage() admits core formats only, so the check of line 115 always *)
(* passes and is left out.                                                 *)
(***************************************************************************)
EXTENDS Resources

CONSTANTS
    Views,              \* ImageView wrappers
    ViewHandles,        \* VkImageView handles
    ViewDescriptions,   \* descriptions passed to createImageView
    RemainingCount      \* VK_REMAINING_MIP_LEVELS, VK_REMAINING_ARRAY_LAYERS

\* Subresource ranges; ImageView::Impl, and what Vulkan keeps of a view.
Ranges == [aspects : SUBSET {"color", "depth", "stencil"},
           level : Nat, levels : Nat, layer : Nat, layers : Nat]
ViewImpls == [handle : ViewHandles, device : Devices, image : Handles]
NativeViews == [image : Handles, view_type : STRING, range : Ranges]

ASSUME ViewAssumption ==
    /\ RemainingCount \in Nat \ {0}
    /\ \A d \in ImageDescriptions :
         d.refused = "none" => d.mip_levels \in Nat /\ d.array_layers \in Nat
    /\ \A x \in ViewDescriptions : x.view_type \in STRING /\ x.range \in Ranges
    /\ Null \notin ViewHandles \cup ViewImpls \cup NativeViews

VARIABLES
    views,          \* the implementation of every ImageView wrapper, or Null
    nativeViews     \* the VkImageViews that exist: handle -> image and range

viewVars == <<views, nativeViews>>
imageViewVars == <<resourceVars, viewVars>>

-----------------------------------------------------------------------------
(* createImageView                                                         *)

NativeDevice(i) == DeviceOf[images[i].allocator]

aspects(format) ==
    CASE format = "depth" -> {"depth"}
      [] format = "stencil" -> {"stencil"}
      [] format = "depth_stencil" -> {"depth", "stencil"}
      [] OTHER -> {"color"}

\* Levels or layers of a range.
Effective(count, base, available) == IF count = RemainingCount THEN available - base ELSE count

EffectiveRange(x, parent) ==
    [x.range EXCEPT !.levels = Effective(@, x.range.level, parent.mip_levels),
                    !.layers = Effective(@, x.range.layer, parent.array_layers)]

\* Variant: the end of the range is computed, and wraps around.
ExceedsWrapped(r, parent) ==
    \/ (r.level + r.levels) % (RemainingCount + 1) > parent.mip_levels
    \/ (r.layer + r.layers) % (RemainingCount + 1) > parent.array_layers

Exceeds(r, parent) ==
    \/ r.levels > parent.mip_levels - r.level
    \/ r.layers > parent.array_layers - r.layer

CompatibleType(x, r, parent) ==
    CASE x.view_type = "1d" -> parent.dimensions = "1d" /\ r.layers = 1
      [] x.view_type = "1d_array" -> parent.dimensions = "1d"
      [] x.view_type = "2d" -> parent.dimensions = "2d" /\ r.layers = 1
      [] x.view_type = "2d_array" -> parent.dimensions = "2d"
      [] x.view_type = "3d" -> parent.dimensions = "3d"
      [] OTHER -> FALSE

\* What the description itself makes invalid, against its parent.
Malformed(x, parent) ==
    \/ x.format = "undefined" \/ x.range.aspects = {}
    \/ x.range.levels = 0 \/ x.range.layers = 0
    \/ x.range.level >= parent.mip_levels \/ x.range.layer >= parent.array_layers
    \/ x.components = "unknown"

ViewUsages == {"sampled", "storage", "color_attachment", "depth_stencil_attachment",
               "input_attachment"}

NeedsIdentity(parent) ==
    \/ aspects(parent.format) # {"color"}
    \/ parent.usage \cap {"storage", "input_attachment"} # {}

CreateViewError(device, i, x) ==
    LET parent == images[i].config
        r == EffectiveRange(x, parent)
    IN  IF device = Null \/ ~Live(images[i]) THEN "invalid_parent"
        ELSE IF NativeDevice(i) # device THEN "parent_mismatch"
        ELSE IF Malformed(x, parent) THEN "invalid_description"
        ELSE IF x.format # parent.format THEN "unsupported_configuration"
        ELSE IF Exceeds(r, parent) THEN "invalid_description"
        ELSE IF ~(r.aspects \subseteq aspects(parent.format)) THEN "invalid_description"
        ELSE IF parent.usage \cap ViewUsages = {} THEN "unsupported_configuration"
        ELSE IF ~CompatibleType(x, r, parent) THEN "unsupported_configuration"
        ELSE IF NeedsIdentity(parent) /\ x.components # "identity" THEN "invalid_description"
        ELSE "none"

\* Refused, or vkCreateImageView() fails or returns a null handle.
CreateViewFails ==
    /\ outcome' \in {"invalid_parent", "parent_mismatch", "invalid_description",
                     "unsupported_configuration", "native"}
    /\ UNCHANGED <<ownerVars, synced, viewVars>>

CreateView(v, device, i, x) ==
    /\ views[v] = Null
    /\ CreateViewError(device, i, x) = "none"
    /\ \E h \in {h \in ViewHandles : nativeViews[h] = Null} :
        /\ nativeViews' = [nativeViews EXCEPT ![h] =
             [image |-> images[i].handle, view_type |-> x.view_type,
              range |-> EffectiveRange(x, images[i].config)]]
        /\ views' = [views EXCEPT ![v] =
             [handle |-> h, device |-> device, image |-> images[i].handle]]
    /\ Returns("ok")
    /\ UNCHANGED <<ownerVars, synced>>

-----------------------------------------------------------------------------
(* ImageView                                                               *)

EndView(owner) ==
    [h \in ViewHandles |-> IF Live(owner) /\ h = owner.handle THEN Null ELSE nativeViews[h]]

MoveView(v, w) ==
    /\ v # w
    /\ nativeViews' = EndView(views[v])
    /\ views' = [views EXCEPT ![v] = views[w], ![w] = Null]
    /\ Returns("ok")
    /\ UNCHANGED <<ownerVars, synced>>

DestroyView(v) ==
    /\ Live(views[v])
    /\ nativeViews' = EndView(views[v])
    /\ views' = [views EXCEPT ![v] = Null]
    /\ Returns("ok")
    /\ UNCHANGED <<ownerVars, synced>>

\* ImageView::correlatedWith
Correlated(v, i) ==
    /\ Live(views[v]) /\ Live(images[i])
    /\ views[v].image = images[i].handle
    /\ views[v].device = NativeDevice(i)

Existing == {h \in ViewHandles : nativeViews[h] # Null}

\* Everything else of the application, which destroys a View before its Image.
ParentStep ==
    /\ ResourcesNext
    /\ \A h \in Existing : native'[nativeViews[h].image] = native[nativeViews[h].image]
    /\ UNCHANGED viewVars

ViewInit ==
    /\ ResourcesInit
    /\ views = [v \in Views |-> Null]
    /\ nativeViews = [h \in ViewHandles |-> Null]

ViewNext ==
    \/ ParentStep
    \/ CreateViewFails
    \/ \E v \in Views, device \in Devices \cup {Null}, i \in Images, x \in ViewDescriptions :
        CreateView(v, device, i, x)
    \/ \E v, w \in Views : MoveView(v, w)
    \/ \E v \in Views : DestroyView(v)

ViewSpec == ViewInit /\ [][ViewNext]_imageViewVars

-----------------------------------------------------------------------------
(* Properties                                                              *)

\* Wrappers and native views are what their types say.
ViewTypeOK ==
    /\ views \in [Views -> ViewImpls \cup {Null}]
    /\ nativeViews \in [ViewHandles -> NativeViews \cup {Null}]

\* Every VkImageView belongs to exactly one wrapper and views one Image that
\* still exists: the wrapper that holds that Image now is the one it is
\* correlated with, whatever was moved.  Its effective range is not empty and
\* lies inside that Image, VK_REMAINING_* and counts near the largest included,
\* and a view that is not of an array sees one layer (image_view.cpp:86-92,
\* 105-127, 134-156).
ViewsSeeTheirImage ==
    LET holders == {v \in Views : Live(views[v])}
    IN  /\ Existing = {views[v].handle : v \in holders}
        /\ \A v, w \in holders : v # w => views[v].handle # views[w].handle
        /\ \A v \in holders :
            LET n == nativeViews[views[v].handle]
                r == n.range
            IN  \E i \in Images :
                /\ {j \in Images : Correlated(v, j)} = {i}
                /\ images[i].handle = n.image
                /\ r.levels > 0 /\ r.level + r.levels <= images[i].config.mip_levels
                /\ r.layers > 0 /\ r.layer + r.layers <= images[i].config.array_layers
                /\ n.view_type \in {"1d", "2d"} => r.layers = 1

=============================================================================

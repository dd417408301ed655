-------------------------- MODULE MCInstanceCreation --------------------------
(***************************************************************************)
(* Small instances of InstanceCreation for TLC.                            *)
(***************************************************************************)
EXTENDS InstanceCreation

Surface == 2
Validation == 4     \* a layer
Overlay == 5        \* a layer

\* A loader of Vulkan 1.3, and one of Vulkan 1.0 without the version query.
MCHosts ==
    {[version |-> 13, extensions |-> <<DebugUtils, Surface>>, layers |-> <<Validation>>],
     [version |-> NoVersion, extensions |-> <<Surface, Surface>>, layers |-> <<>>]}

Full == [version |-> 13, extensions |-> <<DebugUtils, Surface, Surface>>,
         layers |-> <<Overlay, Validation>>]

\* Made up: unsorted and repeated, without Debug Utils, with a malformed name.
MCSnapshots ==
    {Full, [Full EXCEPT !.extensions = <<Surface, Empty>>],
     [Full EXCEPT !.layers = <<Nul>>]}

Lists == UNION {[1..n -> {Empty, Surface, DebugUtils}] : n \in 0..2}
Modes == {"disabled", "optional", "required"}

Plain ==
    [api_version |-> 10, required_extensions |-> <<>>, optional_extensions |-> <<>>,
     required_layers |-> <<>>, optional_layers |-> <<>>, debug_utils |-> "disabled",
     wellformed |-> TRUE]

MCDescriptions ==
    {[Plain EXCEPT !.required_extensions = r, !.optional_extensions = o, !.debug_utils = m] :
        r, o \in Lists, m \in Modes}
    \cup {[Plain EXCEPT !.required_layers = r, !.optional_layers = o, !.debug_utils = "optional"] :
        r, o \in {<<>>, <<Validation>>, <<Overlay, Validation>>, <<Validation, Validation>>,
                  <<Overlay, Nul>>}}
    \cup {[Plain EXCEPT !.api_version = v, !.required_extensions = r] :
        v \in {0, 12, 13, 14, NoVersion}, r \in {<<>>, <<Nul>>}}
    \cup {[Plain EXCEPT !.wellformed = FALSE]}

MCRepeated == {Plain, [Plain EXCEPT !.debug_utils = "required"]}

\* Two that are whole, and four that lack one thing each.
Whole == [severity |-> "warning", data |-> TRUE, types |-> {"validation"}]

MCMessages ==
    {Whole, [Whole EXCEPT !.types = {"performance", "general"}],
     [Whole EXCEPT !.severity = "unknown"], [Whole EXCEPT !.data = FALSE],
     [Whole EXCEPT !.types = {}], [Whole EXCEPT !.types = {"general", "unknown"}]}

Symmetry == Permutations(Instances) \cup Permutations(Addresses) \cup Permutations(Sinks)

=============================================================================

------------------------------ MODULE Resources ------------------------------
(***************************************************************************)
(* Buffer and Image, the move-only owners of graphics/buffer.cpp and       *)
(* graphics/image.cpp: which wrapper owns which native object, and what    *)
(* map(), unmap(), flush() and invalidate() do to the memory behind it.    *)
(*                                                                         *)
(* A wrapper that is Null has no implementation: it was moved from, or is  *)
(* not constructed.  native is the side of VMA, the Vulkan Memory          *)
(* Allocator: the objects that exist and how often their memory is mapped. *)
(* Handles are used again once their object is destroyed.                  *)
(***************************************************************************)
EXTENDS Naturals, FiniteSets

CONSTANTS
    Buffers, Images,            \* wrappers
    Handles,                    \* VkBuffer or VkImage with its VmaAllocation
    Allocators,                 \* VmaAllocator handles
    Devices, DeviceOf,          \* VkDevice handles; that of each VmaAllocator
    BufferDescriptions,         \* descriptions passed to createBuffer
    ImageDescriptions,          \* descriptions passed to createImage
    MaxSize,                    \* the largest vk::DeviceSize
    Null

WholeSize == MaxSize            \* VK_WHOLE_SIZE is ~0
Sizes == 0..MaxSize
Usages == {"transfer_src", "transfer_dst", "other"}
Access == {"host_access", "no_host_access", "any"}

BufferConfigs == [size : Sizes, usage : SUBSET Usages, allowed : BOOLEAN, access : Access,
                  host_visible : BOOLEAN]

\* Buffer::Impl, Image::Impl, and what VMA keeps behind a handle.
BufferImpls == [handle : Handles, allocator : Allocators, mapping : BOOLEAN,
                config : BufferConfigs]
ImageImpls == [handle : Handles, allocator : Allocators, config : ImageDescriptions]
NativeObjects == [maps : Nat, visible : BOOLEAN]

ASSUME ResourcesAssumption ==
    /\ MaxSize \in Nat
    /\ BufferDescriptions \subseteq BufferConfigs
    /\ DeviceOf \in [Allocators -> Devices]
    /\ Null \notin Handles \cup Allocators \cup Devices \cup BufferImpls \cup ImageImpls \cup NativeObjects

VARIABLES
    buffers,    \* the implementation of every Buffer wrapper, or Null
    images,     \* the implementation of every Image wrapper, or Null
    native,     \* VMA: the object behind every handle, or Null
    synced,     \* the last range given to vmaFlushAllocation or vmaInvalidateAllocation
    outcome     \* what the last call returned; "ok" of one that returns nothing

ownerVars == <<buffers, images, native>>
resourceVars == <<buffers, images, native, synced, outcome>>

Returns(value) == outcome' = value

\* The wrapper is valid(): it has an implementation with native handles.
Live(owner) == owner # Null

Owned == {buffers[b].handle : b \in {x \in Buffers : Live(buffers[x])}}
         \cup {images[i].handle : i \in {x \in Images : Live(images[x])}}

Unused == {h \in Handles : native[h] = Null}

-----------------------------------------------------------------------------
(* Buffer                                                                  *)

CreateBufferError(a, d) ==
    IF a = Null THEN "invalid_parent"
    ELSE IF d.size = 0 \/ d.usage = {} THEN "invalid_description"
    ELSE IF ~d.allowed THEN "unsupported_configuration"
    ELSE "none"

CreateBufferRejected(a, d) ==
    /\ CreateBufferError(a, d) # "none"
    /\ Returns(CreateBufferError(a, d))
    /\ UNCHANGED <<ownerVars, synced>>

CreateBufferFails(a, d) ==
    /\ CreateBufferError(a, d) = "none"
    /\ Returns("native")
    /\ UNCHANGED <<ownerVars, synced>>

\* VMA may find HOST_VISIBLE memory even where it is not required.
CreateBuffer(b, a, d) ==
    /\ buffers[b] = Null
    /\ CreateBufferError(a, d) = "none"
    /\ \E h \in Unused, visible \in BOOLEAN :
         /\ d.host_visible => visible
         /\ native' = [native EXCEPT ![h] = [maps |-> 0, visible |-> visible]]
         /\ buffers' = [buffers EXCEPT ![b] = [handle |-> h, allocator |-> a, mapping |-> FALSE,
                                               config |-> d]]
    /\ Returns("ok")
    /\ UNCHANGED <<images, synced>>

\* Variant: the destructor leaves the memory mapped.
DestroyedMapped(owner, n) ==
    IF ~Live(owner) THEN n
    ELSE [n EXCEPT ![owner.handle] = IF @.maps = 0 THEN Null ELSE @]

\* ~Impl: unmaps memory that is still mapped, then vmaDestroyBuffer.  VMA keeps
\* an object whose memory is mapped, which is an error of its user.
Destroyed(owner, n) ==
    IF ~Live(owner) THEN n
    ELSE [n EXCEPT ![owner.handle] = IF @.maps = (IF owner.mapping THEN 1 ELSE 0) THEN Null ELSE @]

MapError(b) ==
    IF ~Live(buffers[b]) THEN "invalid_buffer"
    ELSE IF buffers[b].mapping THEN "already_mapped"
    ELSE IF ~native[buffers[b].handle].visible THEN "not_host_visible"
    ELSE IF buffers[b].config.access = "no_host_access" THEN "unsupported_configuration"
    ELSE "none"

Map(b) ==
    \/ /\ MapError(b) # "none" /\ Returns(MapError(b))
       /\ UNCHANGED <<ownerVars, synced>>
    \/ /\ MapError(b) = "none" /\ Returns("native")
       /\ UNCHANGED <<ownerVars, synced>>
    \/ /\ MapError(b) = "none" /\ Returns("ok")
       /\ native' = [native EXCEPT ![buffers[b].handle].maps = @ + 1]
       /\ buffers' = [buffers EXCEPT ![b].mapping = TRUE]
       /\ UNCHANGED <<images, synced>>

UnmapError(b) ==
    IF ~Live(buffers[b]) THEN "invalid_buffer"
    ELSE IF ~buffers[b].mapping THEN "not_mapped"
    ELSE "none"

Unmap(b) ==
    \/ /\ UnmapError(b) # "none" /\ Returns(UnmapError(b))
       /\ UNCHANGED <<ownerVars, synced>>
    \/ /\ UnmapError(b) = "none" /\ Returns("ok")
       /\ native' = [native EXCEPT ![buffers[b].handle].maps = @ - 1]
       /\ buffers' = [buffers EXCEPT ![b].mapping = FALSE]
       /\ UNCHANGED <<images, synced>>

\* Variant: the end of the range is computed, and wraps around.
RangeErrorWrapped(logical, offset, size) ==
    (offset + (IF size = WholeSize THEN logical ELSE size)) % (MaxSize + 1) > logical

RangeError(logical, offset, size) ==
    LET bytes == IF size = WholeSize THEN logical - offset ELSE size
    IN  offset >= logical \/ bytes = 0 \/ bytes > logical - offset

SynchronizeError(b, offset, size) ==
    IF ~Live(buffers[b]) THEN "invalid_buffer"
    ELSE IF ~buffers[b].mapping THEN "not_mapped"
    ELSE IF RangeError(buffers[b].config.size, offset, size) THEN "invalid_range"
    ELSE "none"

\* flush and invalidate
Synchronize(b, offset, size) ==
    LET logical == buffers[b].config.size
        bytes == IF size = WholeSize THEN logical - offset ELSE size
    IN  /\ \/ /\ SynchronizeError(b, offset, size) # "none"
              /\ Returns(SynchronizeError(b, offset, size))
              /\ UNCHANGED synced
           \/ /\ SynchronizeError(b, offset, size) = "none"
              /\ outcome' \in {"ok", "native"}
              /\ synced' = [handle |-> buffers[b].handle, offset |-> offset, size |-> bytes]
        /\ UNCHANGED ownerVars

\* Variant: the displaced implementation is forgotten.
MoveBufferForgets(b, c) ==
    /\ buffers' = IF b = c THEN buffers ELSE [buffers EXCEPT ![b] = buffers[c], ![c] = Null]
    /\ Returns("ok") /\ UNCHANGED <<images, native, synced>>

\* Default move assignment; onto itself it changes nothing.
MoveBuffer(b, c) ==
    /\ native' = IF b = c THEN native ELSE Destroyed(buffers[b], native)
    /\ buffers' = IF b = c THEN buffers ELSE [buffers EXCEPT ![b] = buffers[c], ![c] = Null]
    /\ Returns("ok") /\ UNCHANGED <<images, synced>>

\* A Buffer ends with its scope: whatever the scope returns stays returned.
EndBuffer(b) ==
    /\ Live(buffers[b])
    /\ native' = Destroyed(buffers[b], native)
    /\ buffers' = [buffers EXCEPT ![b] = Null]
    /\ UNCHANGED <<images, synced>>

DestroyBuffer(b) == EndBuffer(b) /\ Returns("ok")

-----------------------------------------------------------------------------
(* Image                                                                   *)

CreateImageError(a, d) == IF a = Null THEN "invalid_parent" ELSE d.refused

CreateImageRejected(a, d) ==
    /\ CreateImageError(a, d) # "none"
    /\ Returns(CreateImageError(a, d))
    /\ UNCHANGED <<ownerVars, synced>>

\* The format query or vmaCreateImage fails.
CreateImageFails(a, d) ==
    /\ CreateImageError(a, d) = "none"
    /\ outcome' \in {"native", "unsupported_configuration"}
    /\ UNCHANGED <<ownerVars, synced>>

CreateImage(i, a, d) ==
    /\ images[i] = Null
    /\ CreateImageError(a, d) = "none"
    /\ \E h \in Unused :
         /\ native' = [native EXCEPT ![h] = [maps |-> 0, visible |-> FALSE]]
         /\ images' = [images EXCEPT ![i] = [handle |-> h, allocator |-> a, config |-> d]]
    /\ Returns("ok")
    /\ UNCHANGED <<buffers, synced>>

MoveImage(i, j) ==
    /\ native' = IF i # j /\ Live(images[i]) THEN [native EXCEPT ![images[i].handle] = Null]
                                            ELSE native
    /\ images' = IF i = j THEN images ELSE [images EXCEPT ![i] = images[j], ![j] = Null]
    /\ Returns("ok") /\ UNCHANGED <<buffers, synced>>

DestroyImage(i) ==
    /\ Live(images[i])
    /\ native' = [native EXCEPT ![images[i].handle] = Null]
    /\ images' = [images EXCEPT ![i] = Null]
    /\ Returns("ok") /\ UNCHANGED <<buffers, synced>>

-----------------------------------------------------------------------------
ResourcesInit ==
    /\ buffers = [b \in Buffers |-> Null]
    /\ images = [i \in Images |-> Null]
    /\ native = [h \in Handles |-> Null]
    /\ synced = Null
    /\ outcome = "ok"

BufferCalls ==
    \/ \E a \in Allocators \cup {Null}, d \in BufferDescriptions :
         \/ CreateBufferRejected(a, d) \/ CreateBufferFails(a, d)
         \/ \E b \in Buffers : CreateBuffer(b, a, d)
    \/ \E b \in Buffers : Map(b) \/ Unmap(b) \/ DestroyBuffer(b)
    \/ \E b \in Buffers, offset, size \in Sizes :
         Synchronize(b, offset, size)
    \/ \E b, c \in Buffers : MoveBuffer(b, c)

ImageCalls ==
    \/ \E a \in Allocators \cup {Null}, d \in ImageDescriptions :
         \/ CreateImageRejected(a, d) \/ CreateImageFails(a, d)
         \/ \E i \in Images : CreateImage(i, a, d)
    \/ \E i \in Images : DestroyImage(i)
    \/ \E i, j \in Images : MoveImage(i, j)

ResourcesNext == BufferCalls \/ ImageCalls

ResourcesSpec == ResourcesInit /\ [][ResourcesNext]_resourceVars

-----------------------------------------------------------------------------
(* Properties                                                              *)

\* Implementations and native objects are what their types say.
ResourcesTypeOK ==
    /\ buffers \in [Buffers -> BufferImpls \cup {Null}]
    /\ images \in [Images -> ImageImpls \cup {Null}]
    /\ native \in [Handles -> NativeObjects \cup {Null}]

(* Every native object belongs to exactly one wrapper, whatever was moved   *)
(* over what: none is leaked, none is destroyed twice.                      *)
OneOwnerEach ==
    /\ \A h \in Handles : native[h] # Null <=> h \in Owned
    /\ \A b, c \in Buffers : Live(buffers[b]) /\ Live(buffers[c]) /\ b # c =>
         buffers[b].handle # buffers[c].handle
    /\ \A b \in Buffers, i \in Images : Live(buffers[b]) /\ Live(images[i]) =>
         buffers[b].handle # images[i].handle
    /\ \A i, j \in Images : Live(images[i]) /\ Live(images[j]) /\ i # j =>
         images[i].handle # images[j].handle

(* VMA counts mappings and wants none left when it destroys: the count of   *)
(* every object is what its wrapper believes, through failed calls and      *)
(* moves of mapped buffers.                                                 *)
MappingsBalanced ==
    \A h \in Handles : native[h] # Null =>
        native[h].maps = Cardinality({b \in Buffers : /\ Live(buffers[b])
                                                      /\ buffers[b].handle = h
                                                      /\ buffers[b].mapping})

(* Cache maintenance never leaves the logical buffer, for offsets and sizes *)
(* up to the largest vk::DeviceSize, VK_WHOLE_SIZE among them.              *)
SynchronizedInside ==
    [][synced' # synced => \E b \in Buffers :
          /\ Live(buffers[b])
          /\ buffers[b].handle = synced'.handle /\ buffers[b].mapping
          /\ synced'.size # 0
          /\ synced'.offset + synced'.size <= buffers[b].config.size]_resourceVars
=============================================================================

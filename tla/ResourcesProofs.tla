--------------------------- MODULE ResourcesProofs ---------------------------
(***************************************************************************)
(* Proofs about Resources and ImageView for any number of wrappers,        *)
(* handles, allocators, devices and descriptions, and any largest size;    *)
(* and what the operators of TransferCommands compute, for the proofs of   *)
(* the batches.                                                            *)
(***************************************************************************)
EXTENDS ImageView, TransferCommands, FiniteSetTheorems, WellFoundedInduction, TLAPS

(***************************************************************************)
(* The inductive invariant of the owners.  Instead of counting over all    *)
(* wrappers, as MappingsBalanced does, it compares each wrapper with the   *)
(* object it owns.                                                         *)
(***************************************************************************)
Balanced ==
    /\ \A b \in Buffers : Live(buffers[b]) =>
         native[buffers[b].handle].maps = (IF buffers[b].mapping THEN 1 ELSE 0)
    /\ \A i \in Images : Live(images[i]) => native[images[i].handle].maps = 0

OwnersInv == ResourcesTypeOK /\ OneOwnerEach /\ Balanced

-----------------------------------------------------------------------------
(* Facts about the invariant                                               *)

(* A wrapper with an implementation owns an object that exists.             *)
LEMMA BufferStands ==
    ASSUME OwnersInv, NEW b \in Buffers, Live(buffers[b])
    PROVE  /\ buffers[b] \in BufferImpls
           /\ native[buffers[b].handle] \in NativeObjects
<1>1. buffers[b] \in BufferImpls
  BY DEF OwnersInv, ResourcesTypeOK, Live
<1>2. buffers[b].handle \in Handles /\ buffers[b].handle \in Owned
  BY <1>1 DEF BufferImpls, Owned
<1> QED BY <1>1, <1>2 DEF OwnersInv, OneOwnerEach, ResourcesTypeOK

LEMMA ImageStands ==
    ASSUME OwnersInv, NEW i \in Images, Live(images[i])
    PROVE  /\ images[i] \in ImageImpls
           /\ native[images[i].handle] \in NativeObjects
<1>1. images[i] \in ImageImpls
  BY DEF OwnersInv, ResourcesTypeOK, Live
<1>2. images[i].handle \in Handles /\ images[i].handle \in Owned
  BY <1>1 DEF ImageImpls, Owned
<1> QED BY <1>1, <1>2 DEF OwnersInv, OneOwnerEach, ResourcesTypeOK

(* What the wrappers own, without the set of it.                            *)
LEMMA OwnedMeans ==
    ASSUME NEW h
    PROVE  h \in Owned <=>
             \/ \E b \in Buffers : Live(buffers[b]) /\ buffers[b].handle = h
             \/ \E i \in Images : Live(images[i]) /\ images[i].handle = h
BY DEF Owned

(* Counting mappings over all wrappers comes to what the owner believes.    *)
LEMMA Counting == OwnersInv => MappingsBalanced
<1> SUFFICES ASSUME OwnersInv, NEW h \in Handles, native[h] # Null
             PROVE  native[h].maps = Cardinality({b \in Buffers : /\ Live(buffers[b])
                                                                  /\ buffers[b].handle = h
                                                                  /\ buffers[b].mapping})
  BY DEF MappingsBalanced
<1> DEFINE Mapping == {b \in Buffers : Live(buffers[b]) /\ buffers[b].handle = h /\ buffers[b].mapping}
<1>1. h \in Owned
  BY DEF OwnersInv, OneOwnerEach
<1>2. CASE \E b \in Buffers : Live(buffers[b]) /\ buffers[b].handle = h
  <2>1. PICK b \in Buffers : Live(buffers[b]) /\ buffers[b].handle = h
    BY <1>2
  <2>2. \A c \in Mapping : c = b
    BY <2>1 DEF OwnersInv, OneOwnerEach
  <2>3. native[h].maps = IF buffers[b].mapping THEN 1 ELSE 0
    BY <2>1 DEF OwnersInv, Balanced
  <2>4. Mapping = IF buffers[b].mapping THEN {b} ELSE {}
    BY <2>1, <2>2
  <2> QED BY <2>3, <2>4, FS_EmptySet, FS_Singleton
<1>3. CASE \E i \in Images : Live(images[i]) /\ images[i].handle = h
  <2>1. Mapping = {}
    BY <1>3 DEF OwnersInv, OneOwnerEach
  <2>2. native[h].maps = 0
    BY <1>3 DEF OwnersInv, Balanced
  <2> QED BY <2>1, <2>2, FS_EmptySet
<1> QED BY <1>1, <1>2, <1>3, OwnedMeans

-----------------------------------------------------------------------------
(* The steps                                                               *)

(* A call that leaves the owners and VMA alone.                             *)
LEMMA OwnersUntouched ==
    ASSUME OwnersInv, UNCHANGED ownerVars
    PROVE  OwnersInv'
BY DEF OwnersInv, ResourcesTypeOK, OneOwnerEach, Balanced, Owned, Live, ownerVars

LEMMA CreateBufferKeeps ==
    ASSUME OwnersInv, NEW b \in Buffers, NEW a \in Allocators \cup {Null},
           NEW d \in BufferConfigs, CreateBuffer(b, a, d)
    PROVE  OwnersInv'
<1>1. PICK h \in Unused, visible \in BOOLEAN :
        /\ native' = [native EXCEPT ![h] = [maps |-> 0, visible |-> visible]]
        /\ buffers' = [buffers EXCEPT ![b] = [handle |-> h, allocator |-> a, mapping |-> FALSE,
                                              config |-> d]]
  BY DEF CreateBuffer
<1>2. /\ buffers[b] = Null /\ images' = images
      /\ h \in Handles /\ native[h] = Null /\ h \notin Owned
  BY DEF CreateBuffer, OwnersInv, OneOwnerEach, Unused
<1>3. a \in Allocators
  BY DEF CreateBuffer, CreateBufferError
<1>4. /\ buffers'[b] \in BufferImpls /\ buffers'[b] # Null
      /\ buffers'[b].handle = h /\ ~buffers'[b].mapping
      /\ \A c \in Buffers \ {b} : buffers'[c] = buffers[c]
  <2> DEFINE new == [handle |-> h, allocator |-> a, mapping |-> FALSE, config |-> d]
  <2>1. new \in BufferImpls
    BY <1>2, <1>3 DEF BufferImpls
  <2>2. buffers'[b] = new /\ \A c \in Buffers \ {b} : buffers'[c] = buffers[c]
    BY <1>1 DEF OwnersInv, ResourcesTypeOK
  <2>3. new # Null
    BY <2>1, ResourcesAssumption
  <2>4. new.handle = h /\ ~new.mapping
    OBVIOUS
  <2> QED BY <2>1, <2>2, <2>3, <2>4
<1>5. /\ native'[h] \in NativeObjects /\ native'[h] # Null /\ native'[h].maps = 0
      /\ \A k \in Handles \ {h} : native'[k] = native[k]
  BY <1>1, <1>2, ResourcesAssumption DEF OwnersInv, ResourcesTypeOK, NativeObjects
<1>6. ResourcesTypeOK'
  BY <1>1, <1>2, <1>4, <1>5 DEF OwnersInv, ResourcesTypeOK
<1>7. /\ \A c \in Buffers : Live(buffers[c]) => buffers[c].handle # h /\ buffers[c].handle \in Handles
      /\ \A i \in Images : Live(images[i]) => images[i].handle # h /\ images[i].handle \in Handles
  BY <1>2, OwnedMeans, BufferStands, ImageStands DEF BufferImpls, ImageImpls
<1>8. OneOwnerEach'
  <2>1. ASSUME NEW k \in Handles PROVE native'[k] # Null <=> k \in Owned'
    BY <1>2, <1>4, <1>5, <1>7 DEF OwnersInv, OneOwnerEach, Owned, Live
  <2> QED BY <1>2, <1>4, <1>7, <2>1 DEF OwnersInv, OneOwnerEach, Live
<1>9. Balanced'
  BY <1>2, <1>4, <1>5, <1>7 DEF OwnersInv, Balanced, Live
<1> QED BY <1>6, <1>8, <1>9 DEF OwnersInv

(* What a wrapper holds once createBuffer() has made it.                    *)
LEMMA CreatedBuffer ==
    ASSUME OwnersInv, NEW b \in Buffers, NEW a \in Allocators, NEW d \in BufferConfigs,
           CreateBuffer(b, a, d)
    PROVE  /\ Live(buffers'[b]) /\ buffers'[b].config = d /\ buffers'[b].mapping = FALSE
           /\ \A c \in Buffers \ {b} : buffers'[c] = buffers[c]
           /\ images' = images
<1>1. PICK h \in Unused :
        buffers' = [buffers EXCEPT ![b] = [handle |-> h, allocator |-> a, mapping |-> FALSE,
                                           config |-> d]]
  BY DEF CreateBuffer
<1> DEFINE new == [handle |-> h, allocator |-> a, mapping |-> FALSE, config |-> d]
<1>2. new \in BufferImpls
  BY DEF BufferImpls, Unused
<1>3. new # Null
  BY <1>2, ResourcesAssumption
<1>4. buffers'[b] = new /\ \A c \in Buffers \ {b} : buffers'[c] = buffers[c]
  BY <1>1 DEF OwnersInv, ResourcesTypeOK
<1> QED BY <1>3, <1>4 DEF Live, CreateBuffer

(* A wrapper marks its object as mapped, or as unmapped.                    *)
LEMMA MarkKeeps ==
    ASSUME OwnersInv, NEW b \in Buffers, Live(buffers[b]), NEW mapped \in BOOLEAN,
           UNCHANGED images,
           buffers' = [buffers EXCEPT ![b].mapping = mapped],
           NEW count, count = IF mapped THEN 1 ELSE 0,
           native' = [native EXCEPT ![buffers[b].handle].maps = count]
    PROVE  OwnersInv'
<1> DEFINE h == buffers[b].handle
<1>1. /\ buffers[b] \in BufferImpls /\ h \in Handles /\ native[h] \in NativeObjects
  BY BufferStands DEF BufferImpls
<1>2. /\ buffers'[b] \in BufferImpls /\ buffers'[b].handle = h /\ buffers'[b].mapping = mapped
      /\ \A c \in Buffers \ {b} : buffers'[c] = buffers[c]
  BY <1>1 DEF OwnersInv, ResourcesTypeOK, BufferImpls
<1>3. /\ native'[h] \in NativeObjects /\ native'[h].maps = count
      /\ \A k \in Handles \ {h} : native'[k] = native[k]
  BY <1>1 DEF OwnersInv, ResourcesTypeOK, NativeObjects
<1>4. ResourcesTypeOK'
  BY <1>1, <1>2, <1>3 DEF OwnersInv, ResourcesTypeOK
<1>5. /\ \A c \in Buffers : Live(buffers[c]) => buffers[c].handle \in Handles
      /\ \A i \in Images : Live(images[i]) => images[i].handle \in Handles
  BY BufferStands, ImageStands DEF BufferImpls, ImageImpls
<1>6. /\ \A c \in Buffers : Live(buffers[c])' <=> Live(buffers[c])
      /\ \A c \in Buffers : Live(buffers[c]) => buffers'[c].handle = buffers[c].handle
      /\ \A k \in Handles : native'[k] # Null <=> native[k] # Null
  BY <1>1, <1>2, <1>3, ResourcesAssumption DEF Live
<1>7. OneOwnerEach'
  <2>1. Owned' = Owned
    BY <1>6 DEF Owned, Live
  <2> QED BY <1>6, <2>1 DEF OwnersInv, OneOwnerEach, Live
<1>8. Balanced'
  BY <1>1, <1>2, <1>3, <1>5 DEF OwnersInv, OneOwnerEach, Balanced, Live
<1> QED BY <1>4, <1>7, <1>8 DEF OwnersInv

LEMMA MapKeeps ==
    ASSUME OwnersInv, NEW b \in Buffers, Map(b) \/ Unmap(b)
    PROVE  OwnersInv'
<1>1. CASE UNCHANGED ownerVars
  BY <1>1, OwnersUntouched
<1>2. CASE Map(b) /\ ~UNCHANGED ownerVars
  <2>1. /\ MapError(b) = "none" /\ UNCHANGED images
        /\ native' = [native EXCEPT ![buffers[b].handle].maps = @ + 1]
        /\ buffers' = [buffers EXCEPT ![b].mapping = TRUE]
    BY <1>2 DEF Map
  <2>2. Live(buffers[b]) /\ ~buffers[b].mapping
    BY <2>1 DEF MapError
  <2>3. native[buffers[b].handle].maps = 0
    BY <2>2 DEF OwnersInv, Balanced
  <2>4. native' = [native EXCEPT ![buffers[b].handle].maps = 1]
    BY <2>1, <2>3
  <2> QED BY <2>1, <2>2, <2>4, MarkKeeps
<1>3. CASE Unmap(b) /\ ~UNCHANGED ownerVars
  <2>1. /\ UnmapError(b) = "none" /\ UNCHANGED images
        /\ native' = [native EXCEPT ![buffers[b].handle].maps = @ - 1]
        /\ buffers' = [buffers EXCEPT ![b].mapping = FALSE]
    BY <1>3 DEF Unmap
  <2>2. Live(buffers[b]) /\ buffers[b].mapping
    BY <2>1 DEF UnmapError
  <2>3. native[buffers[b].handle].maps = 1
    BY <2>2 DEF OwnersInv, Balanced
  <2>4. native' = [native EXCEPT ![buffers[b].handle].maps = 0]
    BY <2>1, <2>3
  <2> QED BY <2>1, <2>2, <2>4, MarkKeeps
<1> QED BY <1>1, <1>2, <1>3

(* The destructor finds as many mappings as there are.                      *)
LEMMA DestructorEnds ==
    ASSUME OwnersInv, NEW b \in Buffers
    PROVE  Destroyed(buffers[b], native) =
             IF Live(buffers[b]) THEN [native EXCEPT ![buffers[b].handle] = Null] ELSE native
BY DEF OwnersInv, Balanced, Destroyed

(* Wrapper b takes what from holds, a wrapper c that loses it or nothing;   *)
(* what b held before is destroyed.                                         *)
LEMMA BufferDisplaced ==
    ASSUME OwnersInv, NEW b \in Buffers, NEW from,
           \/ from = Null /\ buffers' = [buffers EXCEPT ![b] = Null]
           \/ \E c \in Buffers \ {b} : /\ from = buffers[c]
                                       /\ buffers' = [buffers EXCEPT ![b] = from, ![c] = Null],
           native' = Destroyed(buffers[b], native), UNCHANGED images
    PROVE  OwnersInv'
<1>1. /\ buffers' \in [Buffers -> BufferImpls \cup {Null}]
      /\ \A x \in Buffers : Live(buffers'[x]) =>
           \E y \in Buffers \ {b} : /\ buffers'[x] = buffers[y]
                                   /\ (y = x \/ (x = b /\ buffers'[y] = Null))
      /\ \A y \in Buffers \ {b} : Live(buffers[y]) =>
           buffers'[y] = buffers[y] \/ buffers'[b] = buffers[y]
  BY DEF OwnersInv, ResourcesTypeOK, Live
<1>2. /\ \A k \in Handles : Live(buffers[b]) /\ k = buffers[b].handle => native'[k] = Null
      /\ \A k \in Handles : ~(Live(buffers[b]) /\ k = buffers[b].handle) => native'[k] = native[k]
      /\ native' \in [Handles -> NativeObjects \cup {Null}]
  BY DestructorEnds DEF OwnersInv, ResourcesTypeOK, Live
<1>3. /\ \A c \in Buffers : Live(buffers[c]) => buffers[c].handle \in Handles
      /\ \A i \in Images : Live(images[i]) => images[i].handle \in Handles
  BY BufferStands, ImageStands DEF BufferImpls, ImageImpls
<1>4. ResourcesTypeOK'
  BY <1>1, <1>2 DEF OwnersInv, ResourcesTypeOK
<1>5. /\ \A x, y \in Buffers : Live(buffers'[x]) /\ Live(buffers'[y]) /\ x # y =>
           buffers'[x].handle # buffers'[y].handle
      /\ \A x \in Buffers, i \in Images : Live(buffers'[x]) /\ Live(images[i]) =>
           buffers'[x].handle # images[i].handle
  BY <1>1 DEF OwnersInv, OneOwnerEach, Live
<1>6. ASSUME NEW k \in Handles PROVE native'[k] # Null <=> k \in Owned'
  <2>1. k \in Owned' <=> \/ \E x \in Buffers : Live(buffers'[x]) /\ buffers'[x].handle = k
                         \/ \E i \in Images : Live(images[i]) /\ images[i].handle = k
    BY DEF Owned
  <2>2. \/ \E x \in Buffers : Live(buffers'[x]) /\ buffers'[x].handle = k
        \/ \E i \in Images : Live(images[i]) /\ images[i].handle = k
        <=> k \in Owned /\ ~(Live(buffers[b]) /\ k = buffers[b].handle)
    BY <1>1, OwnedMeans DEF OwnersInv, OneOwnerEach
  <2> QED BY <1>2, <2>1, <2>2 DEF OwnersInv, OneOwnerEach
<1>7. OneOwnerEach'
  BY <1>5, <1>6 DEF OwnersInv, OneOwnerEach, Live
<1>8. Balanced'
  <2>1. ASSUME NEW x \in Buffers, Live(buffers'[x])
        PROVE  native'[buffers'[x].handle].maps = IF buffers'[x].mapping THEN 1 ELSE 0
    <3>1. PICK y \in Buffers \ {b} : buffers'[x] = buffers[y]
      BY <1>1, <2>1
    <3>2. native'[buffers[y].handle] = native[buffers[y].handle]
      BY <1>2, <1>3, <2>1, <3>1 DEF OwnersInv, OneOwnerEach
    <3> QED BY <2>1, <3>1, <3>2 DEF OwnersInv, Balanced
  <2>2. ASSUME NEW i \in Images, Live(images[i]) PROVE native'[images[i].handle].maps = 0
    BY <1>2, <1>3, <2>2 DEF OwnersInv, OneOwnerEach, Balanced
  <2> QED BY <2>1, <2>2 DEF Balanced, Live
<1> QED BY <1>4, <1>7, <1>8 DEF OwnersInv

LEMMA CreateImageKeeps ==
    ASSUME OwnersInv, NEW i \in Images, NEW a \in Allocators \cup {Null},
           NEW d \in ImageDescriptions, CreateImage(i, a, d)
    PROVE  OwnersInv'
<1>1. PICK h \in Unused :
        /\ native' = [native EXCEPT ![h] = [maps |-> 0, visible |-> FALSE]]
        /\ images' = [images EXCEPT ![i] = [handle |-> h, allocator |-> a, config |-> d]]
  BY DEF CreateImage
<1>2. /\ images[i] = Null /\ buffers' = buffers
      /\ h \in Handles /\ native[h] = Null /\ h \notin Owned
  BY DEF CreateImage, OwnersInv, OneOwnerEach, Unused
<1>3. a \in Allocators
  BY DEF CreateImage, CreateImageError
<1>4. /\ images'[i] \in ImageImpls /\ images'[i] # Null /\ images'[i].handle = h
      /\ \A j \in Images \ {i} : images'[j] = images[j]
  <2> DEFINE new == [handle |-> h, allocator |-> a, config |-> d]
  <2>1. new \in ImageImpls
    BY <1>2, <1>3 DEF ImageImpls
  <2>2. images'[i] = new /\ \A j \in Images \ {i} : images'[j] = images[j]
    BY <1>1 DEF OwnersInv, ResourcesTypeOK
  <2>3. new # Null
    BY <2>1, ResourcesAssumption
  <2>4. new.handle = h
    OBVIOUS
  <2> QED BY <2>1, <2>2, <2>3, <2>4
<1>5. /\ native'[h] \in NativeObjects /\ native'[h] # Null /\ native'[h].maps = 0
      /\ \A k \in Handles \ {h} : native'[k] = native[k]
  <2> DEFINE object == [maps |-> 0, visible |-> FALSE]
  <2>1. object \in NativeObjects /\ object.maps = 0
    BY DEF NativeObjects
  <2>2. native'[h] = object /\ \A k \in Handles \ {h} : native'[k] = native[k]
    BY <1>1, <1>2 DEF OwnersInv, ResourcesTypeOK
  <2>3. object # Null
    BY <2>1, ResourcesAssumption
  <2> QED BY <2>1, <2>2, <2>3
<1>6. ResourcesTypeOK'
  BY <1>1, <1>2, <1>4, <1>5 DEF OwnersInv, ResourcesTypeOK
<1>7. /\ \A b \in Buffers : Live(buffers[b]) => buffers[b].handle # h /\ buffers[b].handle \in Handles
      /\ \A j \in Images : Live(images[j]) => images[j].handle # h /\ images[j].handle \in Handles
  BY <1>2, OwnedMeans, BufferStands, ImageStands DEF BufferImpls, ImageImpls
<1>8. OneOwnerEach'
  <2>1. ASSUME NEW k \in Handles PROVE native'[k] # Null <=> k \in Owned'
    BY <1>2, <1>4, <1>5, <1>7 DEF OwnersInv, OneOwnerEach, Owned, Live
  <2> QED BY <1>2, <1>4, <1>7, <2>1 DEF OwnersInv, OneOwnerEach, Live
<1>9. Balanced'
  BY <1>2, <1>4, <1>5, <1>7 DEF OwnersInv, Balanced, Live
<1> QED BY <1>6, <1>8, <1>9 DEF OwnersInv

(* The same of an Image i: what it held is destroyed.                       *)
LEMMA ImageDisplaced ==
    ASSUME OwnersInv, NEW i \in Images,
           \/ images' = [images EXCEPT ![i] = Null]
           \/ \E j \in Images \ {i} : images' = [images EXCEPT ![i] = images[j], ![j] = Null],
           native' = IF Live(images[i]) THEN [native EXCEPT ![images[i].handle] = Null] ELSE native,
           UNCHANGED buffers
    PROVE  OwnersInv'
<1>1. /\ images' \in [Images -> ImageImpls \cup {Null}]
      /\ \A x \in Images : Live(images'[x]) =>
           \E y \in Images \ {i} : /\ images'[x] = images[y]
                                   /\ y = x \/ (x = i /\ images'[y] = Null)
      /\ \A y \in Images \ {i} : Live(images[y]) =>
           images'[y] = images[y] \/ images'[i] = images[y]
  BY DEF OwnersInv, ResourcesTypeOK, Live
<1>2. /\ \A k \in Handles : Live(images[i]) /\ k = images[i].handle => native'[k] = Null
      /\ \A k \in Handles : ~(Live(images[i]) /\ k = images[i].handle) => native'[k] = native[k]
      /\ native' \in [Handles -> NativeObjects \cup {Null}]
  BY DEF OwnersInv, ResourcesTypeOK, Live
<1>3. /\ \A b \in Buffers : Live(buffers[b]) => buffers[b].handle \in Handles
      /\ \A j \in Images : Live(images[j]) => images[j].handle \in Handles
  BY BufferStands, ImageStands DEF BufferImpls, ImageImpls
<1>4. ResourcesTypeOK'
  BY <1>1, <1>2 DEF OwnersInv, ResourcesTypeOK
<1>5. /\ \A x, y \in Images : Live(images'[x]) /\ Live(images'[y]) /\ x # y =>
           images'[x].handle # images'[y].handle
      /\ \A b \in Buffers, x \in Images : Live(buffers[b]) /\ Live(images'[x]) =>
           buffers[b].handle # images'[x].handle
  BY <1>1 DEF OwnersInv, OneOwnerEach, Live
<1>6. ASSUME NEW k \in Handles PROVE native'[k] # Null <=> k \in Owned'
  <2>1. k \in Owned' <=> \/ \E b \in Buffers : Live(buffers[b]) /\ buffers[b].handle = k
                         \/ \E x \in Images : Live(images'[x]) /\ images'[x].handle = k
    BY DEF Owned
  <2>2. \/ \E b \in Buffers : Live(buffers[b]) /\ buffers[b].handle = k
        \/ \E x \in Images : Live(images'[x]) /\ images'[x].handle = k
        <=> k \in Owned /\ ~(Live(images[i]) /\ k = images[i].handle)
    BY <1>1, OwnedMeans DEF OwnersInv, OneOwnerEach
  <2> QED BY <1>2, <2>1, <2>2 DEF OwnersInv, OneOwnerEach
<1>7. OneOwnerEach'
  BY <1>5, <1>6 DEF OwnersInv, OneOwnerEach, Live
<1>8. Balanced'
  <2>1. ASSUME NEW x \in Images, Live(images'[x]) PROVE native'[images'[x].handle].maps = 0
    <3>1. PICK y \in Images \ {i} : images'[x] = images[y]
      BY <1>1, <2>1
    <3>2. native'[images[y].handle] = native[images[y].handle]
      BY <1>2, <1>3, <2>1, <3>1 DEF OwnersInv, OneOwnerEach
    <3> QED BY <2>1, <3>1, <3>2 DEF OwnersInv, Balanced
  <2>2. ASSUME NEW b \in Buffers, Live(buffers[b])
        PROVE  native'[buffers[b].handle].maps = IF buffers[b].mapping THEN 1 ELSE 0
    BY <1>2, <1>3, <2>2 DEF OwnersInv, OneOwnerEach, Balanced
  <2> QED BY <2>1, <2>2 DEF Balanced, Live
<1> QED BY <1>4, <1>7, <1>8 DEF OwnersInv

(* Every call on a Buffer or an Image.                                      *)
LEMMA ResourcesKeep == OwnersInv /\ [ResourcesNext]_resourceVars => OwnersInv'
<1> SUFFICES ASSUME OwnersInv, [ResourcesNext]_resourceVars PROVE OwnersInv'
  OBVIOUS
<1>1. CASE UNCHANGED ownerVars
  BY <1>1, OwnersUntouched
<1>2. CASE \E a \in Allocators \cup {Null}, d \in BufferDescriptions, b \in Buffers :
             CreateBuffer(b, a, d)
  BY <1>2, CreateBufferKeeps, ResourcesAssumption
<1>3. CASE \E b \in Buffers : Map(b) \/ Unmap(b)
  BY <1>3, MapKeeps
<1>4. CASE \E b \in Buffers : DestroyBuffer(b)
  BY <1>4, BufferDisplaced DEF DestroyBuffer, EndBuffer
<1>5. CASE \E b, c \in Buffers : MoveBuffer(b, c)
  <2>1. PICK b, c \in Buffers : MoveBuffer(b, c)
    BY <1>5
  <2>2. CASE b = c
    BY <2>1, <2>2, OwnersUntouched DEF MoveBuffer, ownerVars
  <2>3. CASE b # c
    BY <2>1, <2>3, BufferDisplaced DEF MoveBuffer
  <2> QED BY <2>2, <2>3
<1>6. CASE \E a \in Allocators \cup {Null}, d \in ImageDescriptions, i \in Images :
             CreateImage(i, a, d)
  BY <1>6, CreateImageKeeps
<1>7. CASE \E i \in Images : DestroyImage(i)
  BY <1>7, ImageDisplaced DEF DestroyImage
<1>8. CASE \E i, j \in Images : MoveImage(i, j)
  <2>1. PICK i, j \in Images : MoveImage(i, j)
    BY <1>8
  <2>2. CASE i = j
    BY <2>1, <2>2, OwnersUntouched DEF MoveImage, ownerVars
  <2>3. CASE i # j
    BY <2>1, <2>3, ImageDisplaced DEF MoveImage
  <2> QED BY <2>2, <2>3
<1> QED
  <2>1. CASE UNCHANGED resourceVars
    BY <1>1, <2>1 DEF resourceVars, ownerVars
  <2>2. CASE BufferCalls
    BY <1>1, <1>2, <1>3, <1>4, <1>5, <2>2
    DEF BufferCalls, CreateBufferRejected, CreateBufferFails, Synchronize
  <2>3. CASE ImageCalls
    BY <1>1, <1>6, <1>7, <1>8, <2>3 DEF ImageCalls, CreateImageRejected, CreateImageFails
  <2> QED BY <2>1, <2>2, <2>3 DEF ResourcesNext

(* Images move with all they hold: the one behind a handle that VMA goes on *)
(* keeping is still some wrapper's.                                         *)
LEMMA ImagesStay ==
    ASSUME OwnersInv, [ResourcesNext]_resourceVars, NEW i \in Images, Live(images[i]),
           native'[images[i].handle] = native[images[i].handle]
    PROVE  \E j \in Images : images'[j] = images[i]
<1>1. images \in [Images -> ImageImpls \cup {Null}] /\ native[images[i].handle] # Null
  BY ImageStands, ResourcesAssumption DEF OwnersInv, ResourcesTypeOK
<1>2. images[i].handle \in Handles
  BY ImageStands DEF ImageImpls
<1>3. CASE images' = images
  BY <1>3
<1>4. CASE \E a \in Allocators \cup {Null}, d \in ImageDescriptions, j \in Images :
             CreateImage(j, a, d)
  <2>1. PICK j \in Images : images[j] = Null /\ \E v : images' = [images EXCEPT ![j] = v]
    BY <1>4 DEF CreateImage
  <2>2. i # j
    BY <2>1 DEF Live
  <2> QED BY <1>1, <2>1, <2>2
<1>5. CASE \E j \in Images : DestroyImage(j)
  <2>1. PICK j \in Images : DestroyImage(j)
    BY <1>5
  <2>2. j # i
    BY <1>1, <1>2, <2>1 DEF DestroyImage, OwnersInv, ResourcesTypeOK
  <2> QED BY <1>1, <2>1, <2>2 DEF DestroyImage
<1>6. CASE \E j, k \in Images : MoveImage(j, k)
  <2>1. PICK j, k \in Images : MoveImage(j, k)
    BY <1>6
  <2>2. CASE j = k
    BY <2>1, <2>2 DEF MoveImage
  <2>3. CASE j # k
    <3>1. j # i
      BY <1>1, <1>2, <2>1, <2>3 DEF MoveImage, OwnersInv, ResourcesTypeOK
    <3>2. images' = [images EXCEPT ![j] = images[k], ![k] = Null]
      BY <2>1, <2>3 DEF MoveImage
    <3>3. CASE i = k
      BY <1>1, <2>3, <3>2, <3>3
    <3>4. CASE i # k
      BY <1>1, <3>1, <3>2, <3>4
    <3> QED BY <3>3, <3>4
  <2> QED BY <2>2, <2>3
<1> QED
  BY <1>3, <1>4, <1>5, <1>6
  DEF ResourcesNext, BufferCalls, ImageCalls, resourceVars, CreateBufferRejected, CreateBufferFails,
      CreateBuffer, Map, Unmap, DestroyBuffer, EndBuffer, Synchronize, MoveBuffer,
      CreateImageRejected, CreateImageFails, ownerVars

(* Every Image was created with a description createImage() accepts.        *)
Accepted == \A i \in Images : Live(images[i]) => images[i].config.refused = "none"

LEMMA ImagesAccepted ==
    ASSUME OwnersInv, Accepted, [ResourcesNext]_resourceVars
    PROVE  Accepted'
<1>1. images \in [Images -> ImageImpls \cup {Null}]
  BY DEF OwnersInv, ResourcesTypeOK
<1>2. CASE images' = images
  BY <1>2 DEF Accepted, Live
<1>3. CASE \E a \in Allocators \cup {Null}, d \in ImageDescriptions, j \in Images :
             CreateImage(j, a, d)
  <2>1. PICK a \in Allocators \cup {Null}, d \in ImageDescriptions, j \in Images :
          CreateImage(j, a, d)
    BY <1>3
  <2>2. PICK h : images' = [images EXCEPT ![j] = [handle |-> h, allocator |-> a, config |-> d]]
    BY <2>1 DEF CreateImage
  <2>3. d.refused = "none"
    BY <2>1 DEF CreateImage, CreateImageError
  <2> QED BY <1>1, <2>2, <2>3 DEF Accepted, Live
<1>4. CASE \E j \in Images : DestroyImage(j)
  BY <1>1, <1>4 DEF DestroyImage, Accepted, Live
<1>5. CASE \E j, k \in Images : MoveImage(j, k)
  BY <1>1, <1>5 DEF MoveImage, Accepted, Live
<1> QED
  BY <1>2, <1>3, <1>4, <1>5
  DEF ResourcesNext, BufferCalls, ImageCalls, resourceVars, CreateBufferRejected, CreateBufferFails,
      CreateBuffer, Map, Unmap, DestroyBuffer, EndBuffer, Synchronize, MoveBuffer,
      CreateImageRejected, CreateImageFails, ownerVars

-----------------------------------------------------------------------------
(* Views                                                                   *)

\* The wrapper v, its native view and its Image agree, and the range fits.
Stands(v) ==
    LET n == nativeViews[views[v].handle]
        r == n.range
    IN  /\ n.image = views[v].image
        /\ n.view_type \in {"1d", "2d"} => r.layers = 1
        /\ r.levels > 0 /\ r.layers > 0
        /\ \E i \in Images :
             /\ Live(images[i]) /\ images[i].handle = n.image
             /\ NativeDevice(i) = views[v].device
             /\ r.level + r.levels <= images[i].config.mip_levels
             /\ r.layer + r.layers <= images[i].config.array_layers

ViewsOwned ==
    /\ \A h \in ViewHandles :
         nativeViews[h] # Null <=> \E v \in Views : Live(views[v]) /\ views[v].handle = h
    /\ \A v, w \in Views : Live(views[v]) /\ Live(views[w]) /\ v # w =>
         views[v].handle # views[w].handle

ViewsInv ==
    /\ ViewTypeOK
    /\ ViewsOwned
    /\ \A v \in Views : Live(views[v]) => Stands(v)

LEMMA ViewsSee == OwnersInv /\ ViewsInv => ViewsSeeTheirImage
<1> SUFFICES ASSUME OwnersInv, ViewsInv PROVE ViewsSeeTheirImage
  OBVIOUS
<1> DEFINE holders == {v \in Views : Live(views[v])}
<1>1. Existing = {views[v].handle : v \in holders}
  BY DEF Existing, ViewsInv, ViewsOwned, ViewTypeOK, ViewImpls, Live
<1>2. \A v, w \in holders : v # w => views[v].handle # views[w].handle
  BY DEF ViewsInv, ViewsOwned
<1>3. ASSUME NEW v \in holders
      PROVE  LET n == nativeViews[views[v].handle]
                 r == n.range
             IN  \E i \in Images :
                 /\ {j \in Images : Correlated(v, j)} = {i}
                 /\ images[i].handle = n.image
                 /\ r.levels > 0 /\ r.level + r.levels <= images[i].config.mip_levels
                 /\ r.layers > 0 /\ r.layer + r.layers <= images[i].config.array_layers
                 /\ n.view_type \in {"1d", "2d"} => r.layers = 1
  <2>1. Stands(v) /\ Live(views[v])
    BY DEF ViewsInv
  <2>2. PICK i \in Images :
          LET n == nativeViews[views[v].handle]
              r == n.range
          IN  /\ Live(images[i]) /\ images[i].handle = n.image /\ n.image = views[v].image
              /\ NativeDevice(i) = views[v].device
              /\ r.level + r.levels <= images[i].config.mip_levels
              /\ r.layer + r.layers <= images[i].config.array_layers
    BY <2>1 DEF Stands
  <2>3. {j \in Images : Correlated(v, j)} = {i}
    BY <2>1, <2>2 DEF Correlated, OwnersInv, OneOwnerEach
  <2> QED BY <2>1, <2>2, <2>3 DEF Stands
<1> QED BY <1>1, <1>2, <1>3 DEF ViewsSeeTheirImage

(* A call that leaves the views alone, and every Image some view stands on. *)
LEMMA ParentKeeps ==
    ASSUME OwnersInv, ViewsInv, ParentStep
    PROVE  ViewsInv'
<1>1. ViewTypeOK' /\ ViewsOwned' /\ views' = views /\ nativeViews' = nativeViews
  BY DEF ParentStep, viewVars, ViewsInv, ViewTypeOK, ViewsOwned, Live
<1>2. ASSUME NEW v \in Views, Live(views[v]) PROVE Stands(v)'
  <2> DEFINE n == nativeViews[views[v].handle]
  <2>1. PICK i \in Images :
          /\ Live(images[i]) /\ images[i].handle = n.image
          /\ NativeDevice(i) = views[v].device
          /\ n.range.level + n.range.levels <= images[i].config.mip_levels
          /\ n.range.layer + n.range.layers <= images[i].config.array_layers
    BY <1>2 DEF ViewsInv, Stands
  <2>2. native'[images[i].handle] = native[images[i].handle]
    <3>1. views[v].handle \in Existing
      BY <1>2 DEF ViewsInv, ViewsOwned, ViewTypeOK, ViewImpls, Existing, Live
    <3> QED BY <2>1, <3>1 DEF ParentStep
  <2>3. PICK j \in Images : images'[j] = images[i]
    BY <2>1, <2>2, ImagesStay DEF ParentStep
  <2>4. /\ Live(images'[j]) /\ images'[j].handle = n.image
        /\ DeviceOf[images'[j].allocator] = views[v].device
        /\ n.range.level + n.range.levels <= images'[j].config.mip_levels
        /\ n.range.layer + n.range.layers <= images'[j].config.array_layers
    BY <2>1, <2>3 DEF NativeDevice
  <2> QED BY <1>1, <1>2, <2>4 DEF ViewsInv, Stands, Live, NativeDevice
<1> QED BY <1>1, <1>2 DEF ViewsInv, Live

(* What createImageView() lets through: a range of at least one level and   *)
(* one layer that ends inside the Image.                                    *)
LEMMA RangeFits ==
    ASSUME OwnersInv, Accepted, NEW i \in Images, NEW device, NEW x \in ViewDescriptions,
           CreateViewError(device, i, x) = "none"
    PROVE  LET r == EffectiveRange(x, images[i].config)
           IN  /\ device # Null /\ Live(images[i]) /\ NativeDevice(i) = device
               /\ r \in Ranges
               /\ x.view_type \in {"1d", "2d"} => r.layers = 1
               /\ r.levels > 0 /\ r.level + r.levels <= images[i].config.mip_levels
               /\ r.layers > 0 /\ r.layer + r.layers <= images[i].config.array_layers
<1> DEFINE parent == images[i].config
           r == EffectiveRange(x, parent)
<1>1. /\ device # Null /\ Live(images[i]) /\ NativeDevice(i) = device
      /\ ~Malformed(x, parent) /\ ~Exceeds(r, parent) /\ CompatibleType(x, r, parent)
  BY DEF CreateViewError
<1>2. parent.mip_levels \in Nat /\ parent.array_layers \in Nat
  BY <1>1, ImageStands, ViewAssumption DEF Accepted, ImageImpls
<1>3. /\ x.range \in Ranges /\ x.range.level \in Nat /\ x.range.layer \in Nat
      /\ x.range.levels \in Nat \ {0} /\ x.range.layers \in Nat \ {0}
      /\ x.range.level < parent.mip_levels /\ x.range.layer < parent.array_layers
  BY <1>1, <1>2, ViewAssumption DEF Malformed, Ranges
<1>4. /\ r.level = x.range.level /\ r.layer = x.range.layer
      /\ r.levels = Effective(x.range.levels, x.range.level, parent.mip_levels)
      /\ r.layers = Effective(x.range.layers, x.range.layer, parent.array_layers)
  BY <1>3 DEF EffectiveRange, Ranges
<1>5. r.levels \in Nat \ {0} /\ r.layers \in Nat \ {0}
  BY <1>2, <1>3, <1>4 DEF Effective
<1>6. r \in Ranges
  BY <1>3, <1>4, <1>5 DEF EffectiveRange, Ranges
<1>7. /\ r.level + r.levels <= parent.mip_levels
      /\ r.layer + r.layers <= parent.array_layers
  BY <1>1, <1>2, <1>3, <1>4, <1>5 DEF Exceeds
<1>8. x.view_type \in {"1d", "2d"} => r.layers = 1
  BY <1>1 DEF CompatibleType
<1> QED BY <1>1, <1>5, <1>6, <1>7, <1>8

LEMMA CreateViewKeeps ==
    ASSUME OwnersInv, Accepted, ViewsInv, NEW v \in Views, NEW device \in Devices \cup {Null},
           NEW i \in Images, NEW x \in ViewDescriptions, CreateView(v, device, i, x)
    PROVE  ViewsInv'
<1> DEFINE r == EffectiveRange(x, images[i].config)
           object == [image |-> images[i].handle, view_type |-> x.view_type, range |-> r]
<1>1. PICK h \in ViewHandles :
        /\ nativeViews[h] = Null
        /\ nativeViews' = [nativeViews EXCEPT ![h] = object]
        /\ views' = [views EXCEPT ![v] =
             [handle |-> h, device |-> device, image |-> images[i].handle]]
  BY DEF CreateView
<1> DEFINE new == [handle |-> h, device |-> device, image |-> images[i].handle]
<1>2. views[v] = Null /\ images' = images
  BY DEF CreateView, ownerVars
<1>3. /\ device \in Devices /\ Live(images[i]) /\ NativeDevice(i) = device
      /\ r \in Ranges
      /\ x.view_type \in {"1d", "2d"} => r.layers = 1
      /\ r.levels > 0 /\ r.level + r.levels <= images[i].config.mip_levels
      /\ r.layers > 0 /\ r.layer + r.layers <= images[i].config.array_layers
  BY RangeFits DEF CreateView
<1>4. images[i].handle \in Handles
  BY <1>3, ImageStands DEF ImageImpls
<1>5. new \in ViewImpls /\ object \in NativeViews
  BY <1>3, <1>4, ViewAssumption DEF ViewImpls, NativeViews
<1>6. new # Null /\ object # Null
  BY <1>5, ViewAssumption
<1>7. /\ views'[v] = new /\ \A w \in Views \ {v} : views'[w] = views[w]
      /\ nativeViews'[h] = object /\ \A k \in ViewHandles \ {h} : nativeViews'[k] = nativeViews[k]
  BY <1>1 DEF ViewsInv, ViewTypeOK
<1>8. ViewTypeOK'
  BY <1>1, <1>5 DEF ViewsInv, ViewTypeOK
<1>9. new.handle = h /\ new.device = device /\ new.image = images[i].handle
  OBVIOUS
<1>10. \A w \in Views : Live(views[w]) => views[w].handle # h /\ views[w].handle \in ViewHandles
  BY <1>1 DEF ViewsInv, ViewsOwned, ViewTypeOK, ViewImpls, Live
<1>11. ViewsOwned'
  BY <1>2, <1>6, <1>7, <1>9, <1>10 DEF ViewsInv, ViewsOwned, Live
<1>12. Stands(v)'
  <2>1. object.image = new.image /\ object.view_type = x.view_type /\ object.range = r
    OBVIOUS
  <2> QED BY <1>2, <1>3, <1>7, <1>9, <2>1 DEF Stands, NativeDevice, Live
<1>13. ASSUME NEW w \in Views \ {v}, Live(views[w]) PROVE Stands(w)'
  <2>1. views'[w] = views[w] /\ nativeViews'[views[w].handle] = nativeViews[views[w].handle]
    BY <1>7, <1>10, <1>13
  <2> QED BY <1>2, <1>13, <2>1 DEF ViewsInv, Stands, NativeDevice, Live
<1> QED BY <1>7, <1>8, <1>11, <1>12, <1>13 DEF ViewsInv, Live

(* Wrapper v takes what another holds, or nothing; its own view ends.       *)
LEMMA ViewDisplaced ==
    ASSUME ViewsInv, NEW v \in Views, UNCHANGED images,
           \/ views' = [views EXCEPT ![v] = Null]
           \/ \E w \in Views \ {v} : views' = [views EXCEPT ![v] = views[w], ![w] = Null],
           nativeViews' = EndView(views[v])
    PROVE  ViewsInv'
<1>1. /\ views' \in [Views -> ViewImpls \cup {Null}]
      /\ \A x \in Views : Live(views'[x]) =>
           \E y \in Views \ {v} : /\ views'[x] = views[y]
                                  /\ y = x \/ (x = v /\ views'[y] = Null)
      /\ \A y \in Views \ {v} : Live(views[y]) => views'[y] = views[y] \/ views'[v] = views[y]
  BY DEF ViewsInv, ViewTypeOK, Live
<1>2. /\ \A k \in ViewHandles : Live(views[v]) /\ k = views[v].handle => nativeViews'[k] = Null
      /\ \A k \in ViewHandles : ~(Live(views[v]) /\ k = views[v].handle) =>
           nativeViews'[k] = nativeViews[k]
      /\ nativeViews' \in [ViewHandles -> NativeViews \cup {Null}]
  BY DEF EndView, ViewsInv, ViewTypeOK, Live
<1>3. \A y \in Views : Live(views[y]) => views[y].handle \in ViewHandles
  BY DEF ViewsInv, ViewTypeOK, ViewImpls, Live
<1>4. ViewTypeOK'
  BY <1>1, <1>2 DEF ViewTypeOK
<1>5. \A x, y \in Views : Live(views'[x]) /\ Live(views'[y]) /\ x # y =>
           views'[x].handle # views'[y].handle
  BY <1>1 DEF ViewsInv, ViewsOwned, Live
<1>6. ASSUME NEW k \in ViewHandles
      PROVE  nativeViews'[k] # Null <=> \E x \in Views : Live(views'[x]) /\ views'[x].handle = k
  BY <1>1, <1>2 DEF ViewsInv, ViewsOwned
<1>7. ViewsOwned'
  BY <1>5, <1>6 DEF ViewsOwned, Live
<1>8. ASSUME NEW x \in Views, Live(views'[x]) PROVE Stands(x)'
  <2>1. PICK y \in Views \ {v} : views'[x] = views[y]
    BY <1>1, <1>8
  <2>2. nativeViews'[views[y].handle] = nativeViews[views[y].handle]
    BY <1>2, <1>3, <1>8, <2>1 DEF ViewsInv, ViewsOwned
  <2>3. Stands(y)
    BY <1>8, <2>1 DEF ViewsInv
  <2> QED BY <2>1, <2>2, <2>3 DEF Stands, NativeDevice, Live
<1> QED BY <1>4, <1>7, <1>8 DEF ViewsInv, Live

-----------------------------------------------------------------------------
(* The naturals                                                            *)

(* Every non-empty set of naturals has a least one.                         *)
LEMMA LeastNatural ==
    ASSUME NEW S \in SUBSET Nat, S # {}
    PROVE  \E m \in S : \A n \in S : m <= n
<1>1. PICK m \in S : \A n \in S : ~(<<n, m>> \in OpToRel(<, Nat))
  BY NatLessThanWellFounded, WFMin
<1>2. ASSUME NEW n \in S PROVE m <= n
  <2>1. ~(n < m)
    BY <1>1 DEF OpToRel
  <2> QED BY <2>1
<1> QED BY <1>2

(* Induction over the naturals, of a set instead of a predicate.            *)
LEMMA NaturalsByInduction ==
    ASSUME NEW S, 0 \in S, \A n \in Nat : n \in S => n + 1 \in S
    PROVE  \A n \in Nat : n \in S
<1> SUFFICES ASSUME Nat \ S # {} PROVE FALSE
  OBVIOUS
<1>1. PICK m \in Nat \ S : \A n \in Nat \ S : m <= n
  BY LeastNatural
<1>2. m # 0 /\ m - 1 \in Nat /\ m - 1 \notin Nat \ S
  BY <1>1
<1>3. (m - 1) + 1 \in S
  BY <1>2
<1> QED BY <1>1, <1>3

\* f[n] is next applied n times to first.
Iterates(f, first, next) == f[0] = first /\ \A n \in Nat : f[n + 1] = next[f[n]]

(* A function defined by recursion over the naturals exists.                *)
LEMMA Recursion ==
    ASSUME NEW S, NEW first \in S, NEW next \in [S -> S]
    PROVE  \E f \in [Nat -> S] : Iterates(f, first, next)
<1> DEFINE Partial(n) ==
             {g \in [0..n -> S] : g[0] = first /\ \A k \in 0..n - 1 : g[k + 1] = next[g[k]]}
           Exists == {n \in Nat : Partial(n) # {}}
<1>1. \A n \in Nat : Partial(n) # {}
  <2>1. 0 \in Exists
    <3>1. [k \in 0..0 |-> first] \in Partial(0)
      OBVIOUS
    <3> QED BY <3>1
  <2>2. ASSUME NEW n \in Nat, n \in Exists PROVE n + 1 \in Exists
    <3>1. PICK g \in Partial(n) : TRUE
      BY <2>2
    <3> DEFINE h == [k \in 0..n + 1 |-> IF k \in 0..n THEN g[k] ELSE next[g[n]]]
    <3>2. h \in [0..n + 1 -> S]
      BY <3>1
    <3>3. h[0] = first /\ \A k \in 0..n : h[k + 1] = next[h[k]]
      BY <3>1
    <3>4. h \in Partial(n + 1)
      BY <3>2, <3>3
    <3> QED BY <3>4
  <2> HIDE DEF Exists
  <2>3. \A n \in Nat : n \in Exists
    BY <2>1, <2>2, NaturalsByInduction
  <2> QED BY <2>3 DEF Exists
<1> DEFINE part(n) == CHOOSE g : g \in Partial(n)
           f == [n \in Nat |-> part(n)[n]]
<1>2. \A n \in Nat : part(n) \in Partial(n)
  BY <1>1
<1> HIDE DEF part
<1>3. ASSUME NEW n \in Nat PROVE part(n + 1)[n] = part(n)[n]
  <2> DEFINE Same == {k \in Nat : k \in 0..n => part(n + 1)[k] = part(n)[k]}
  <2>1. part(n) \in Partial(n) /\ part(n + 1) \in Partial(n + 1)
    <3> HIDE DEF Partial
    <3> QED BY <1>2
  <2>2. 0 \in Same
    BY <2>1
  <2>3. ASSUME NEW k \in Nat, k \in Same PROVE k + 1 \in Same
    BY <2>1, <2>3
  <2> HIDE DEF Same
  <2>4. n \in Same
    BY <2>2, <2>3, NaturalsByInduction
  <2> QED BY <2>4 DEF Same
<1>4. f \in [Nat -> S] /\ f[0] = first
  BY <1>2
<1>5. ASSUME NEW n \in Nat PROVE f[n + 1] = next[f[n]]
  <2>1. part(n + 1) \in Partial(n + 1)
    <3> HIDE DEF Partial
    <3> QED BY <1>2
  <2>2. part(n + 1)[n + 1] = next[part(n + 1)[n]]
    BY <2>1
  <2> QED BY <1>3, <2>2
<1> QED BY <1>4, <1>5 DEF Iterates

-----------------------------------------------------------------------------
(* What the copies of TransferCommands compute                             *)

(* Shifting a dimension right by n bits halves it n times.                  *)
LEMMA ShiftsHalve ==
    ASSUME NEW d \in Nat
    PROVE  /\ Shifted(d, 0) = d
           /\ \A n \in Nat : Shifted(d, n) \in Nat /\ Shifted(d, n + 1) = Shifted(d, n) \div 2
<1> DEFINE halved == [x \in Nat |-> x \div 2]
           shifted == CHOOSE f : f = [n \in Nat |-> IF n = 0 THEN d ELSE f[n - 1] \div 2]
<1>1. PICK f \in [Nat -> Nat] : Iterates(f, d, halved)
  <2>1. halved \in [Nat -> Nat]
    <3>1. \A x \in Nat : x \div 2 \in Nat
      OBVIOUS
    <3> QED BY <3>1
  <2> HIDE DEF halved
  <2> QED BY <2>1, Recursion
<1>2. f = [n \in Nat |-> IF n = 0 THEN d ELSE f[n - 1] \div 2]
  <2>1. ASSUME NEW n \in Nat PROVE f[n] = IF n = 0 THEN d ELSE f[n - 1] \div 2
    <3>1. CASE n = 0
      BY <1>1, <3>1 DEF Iterates
    <3>2. CASE n # 0
      <4>1. n - 1 \in Nat /\ (n - 1) + 1 = n
        BY <3>2
      <4>2. f[n] = halved[f[n - 1]]
        BY <1>1, <4>1 DEF Iterates
      <4> QED BY <1>1, <3>2, <4>1, <4>2
    <3> QED BY <3>1, <3>2
  <2> QED BY <1>1, <2>1
<1>3. shifted = [n \in Nat |-> IF n = 0 THEN d ELSE shifted[n - 1] \div 2]
  BY <1>2
<1>4. \A n \in Nat : Shifted(d, n) = shifted[n]
  BY DEF Shifted
<1> HIDE DEF shifted
<1>5. shifted[0] = d /\ \A n \in Nat : shifted[n + 1] = shifted[n] \div 2
  <2>1. ASSUME NEW n \in Nat PROVE shifted[n + 1] = shifted[n] \div 2
    <3>1. n + 1 \in Nat /\ n + 1 # 0 /\ (n + 1) - 1 = n
      OBVIOUS
    <3> QED BY <1>3, <3>1
  <2> QED BY <1>3, <2>1
<1>6. \A n \in Nat : shifted[n] \in Nat
  <2> DEFINE Natural == {n \in Nat : shifted[n] \in Nat}
  <2>1. 0 \in Natural /\ \A n \in Nat : n \in Natural => n + 1 \in Natural
    BY <1>5
  <2> HIDE DEF Natural
  <2>2. \A n \in Nat : n \in Natural
    BY <2>1, NaturalsByInduction
  <2> QED BY <2>2 DEF Natural
<1> QED BY <1>4, <1>5, <1>6

Half(x) == IF x < 2 THEN 1 ELSE x \div 2

(* So does Vulkan's rule for levels, but never below one.                   *)
LEMMA LevelsHalve ==
    ASSUME NEW d \in Nat
    PROVE  /\ LevelSize(d, 0) = d
           /\ \A n \in Nat : LevelSize(d, n) \in Nat /\ LevelSize(d, n + 1) = Half(LevelSize(d, n))
<1> USE DEF Half
<1> DEFINE halved == [x \in Nat |-> Half(x)]
           size == CHOOSE f : f = [n \in Nat |-> IF n = 0 THEN d
                                                 ELSE IF f[n - 1] < 2 THEN 1
                                                 ELSE f[n - 1] \div 2]
<1>1. PICK f \in [Nat -> Nat] : Iterates(f, d, halved)
  <2>1. halved \in [Nat -> Nat]
    <3>1. \A x \in Nat : Half(x) \in Nat
      OBVIOUS
    <3> QED BY <3>1
  <2> HIDE DEF halved
  <2> QED BY <2>1, Recursion
<1>2. f = [n \in Nat |-> IF n = 0 THEN d ELSE IF f[n - 1] < 2 THEN 1 ELSE f[n - 1] \div 2]
  <2>1. ASSUME NEW n \in Nat PROVE f[n] = IF n = 0 THEN d ELSE IF f[n - 1] < 2 THEN 1 ELSE f[n - 1] \div 2
    <3>1. CASE n = 0
      BY <1>1, <3>1 DEF Iterates
    <3>2. CASE n # 0
      <4>1. n - 1 \in Nat /\ (n - 1) + 1 = n
        BY <3>2
      <4>2. f[n] = halved[f[n - 1]]
        BY <1>1, <4>1 DEF Iterates
      <4> QED BY <1>1, <3>2, <4>1, <4>2
    <3> QED BY <3>1, <3>2
  <2> QED BY <1>1, <2>1
<1>3. size = [n \in Nat |-> IF n = 0 THEN d ELSE IF size[n - 1] < 2 THEN 1 ELSE size[n - 1] \div 2]
  BY <1>2
<1>4. \A n \in Nat : LevelSize(d, n) = size[n]
  BY DEF LevelSize
<1> HIDE DEF size
<1>5. size[0] = d /\ \A n \in Nat : size[n + 1] = Half(size[n])
  <2>1. ASSUME NEW n \in Nat PROVE size[n + 1] = Half(size[n])
    <3>1. n + 1 \in Nat /\ n + 1 # 0 /\ (n + 1) - 1 = n
      OBVIOUS
    <3> QED BY <1>3, <3>1
  <2> QED BY <1>3, <2>1
<1>6. \A n \in Nat : size[n] \in Nat
  <2> DEFINE Natural == {n \in Nat : size[n] \in Nat}
  <2>1. 0 \in Natural /\ \A n \in Nat : n \in Natural => n + 1 \in Natural
    BY <1>5
  <2> HIDE DEF Natural
  <2>2. \A n \in Nat : n \in Natural
    BY <2>1, NaturalsByInduction
  <2> QED BY <2>2 DEF Natural
<1> QED BY <1>4, <1>5, <1>6

(* The shift that the code computes is Vulkan's rule, for the levels an     *)
(* Image has.                                                               *)
LEMMA MipDimensionIsLevelSize ==
    ASSUME NEW d \in Nat, d # 0, NEW level \in 0..31
    PROVE  MipDimension(d, level) = LevelSize(d, level)
<1> DEFINE shifted(n) == Shifted(d, n)
           size(n) == LevelSize(d, n)
           Agree == {n \in Nat : size(n) = IF shifted(n) # 0 THEN shifted(n) ELSE 1}
<1>1. 0 \in Agree
  BY ShiftsHalve, LevelsHalve
<1>2. ASSUME NEW n \in Nat, n \in Agree PROVE n + 1 \in Agree
  <2>1. /\ shifted(n) \in Nat /\ shifted(n + 1) = shifted(n) \div 2
        /\ size(n) \in Nat /\ size(n + 1) = Half(size(n))
    BY ShiftsHalve, LevelsHalve
  <2> HIDE DEF shifted, size
  <2> QED BY <1>2, <2>1 DEF Half
<1> HIDE DEF Agree
<1>3. level \in Agree
  BY <1>1, <1>2, NaturalsByInduction
<1> QED BY <1>3 DEF Agree, MipDimension

(* The first error of several is none only when none of them is an error.   *)
LEMMA NoErrors ==
    ASSUME NEW errors, DOMAIN errors \subseteq Nat, FirstError(errors) = "none"
    PROVE  \A k \in DOMAIN errors : errors[k] = "none"
<1> DEFINE failed == {k \in DOMAIN errors : errors[k] # "none"}
<1> SUFFICES ASSUME failed # {} PROVE FALSE
  OBVIOUS
<1>1. Min(failed) \in failed
  BY LeastNatural DEF Min
<1>2. FirstError(errors) = errors[Min(failed)]
  BY DEF FirstError
<1> QED BY <1>1, <1>2

(* Without an error a loop of recording calls records all its commands.     *)
LEMMA RecordsAll ==
    ASSUME NEW commands, NEW errors, \A k \in DOMAIN errors : errors[k] = "none",
           RecordAll(commands, errors)
    PROVE  outcome' = "ok" /\ recorded' = Append(recorded, commands)
<1>1. {k \in DOMAIN errors : errors[k] # "none"} = {}
  OBVIOUS
<1> QED BY <1>1 DEF RecordAll, Returns

(* One function of 1..m after another of 1..n.                              *)
LEMMA Joined ==
    ASSUME NEW m \in Nat, NEW n \in Nat, NEW S, NEW f \in [1..m -> S], NEW g \in [1..n -> S]
    PROVE  /\ f \o g \in Seq(S) /\ DOMAIN (f \o g) = 1..m + n
           /\ \A k \in 1..m : (f \o g)[k] = f[k]
           /\ \A k \in 1..n : (f \o g)[m + k] = g[k]
<1>1. f \in Seq(S) /\ g \in Seq(S) /\ Len(f) = m /\ Len(g) = n
  OBVIOUS
<1> QED BY <1>1

(* A range that was checked against a size lies below it.                   *)
LEMMA CellsInside ==
    ASSUME NEW start \in Nat, NEW size \in Nat, NEW total \in Nat, Within(total, start, size)
    PROVE  Cells(start, size) \subseteq Cells(0, total)
BY DEF Within, Cells

(* Ranges that do not overlap share no cell.                                *)
LEMMA CellsApart ==
    ASSUME NEW a \in Int, NEW m \in Nat, NEW b \in Int, NEW n \in Nat, ~Overlaps(a, m, b, n)
    PROVE  Cells(a, m) \cap Cells(b, n) = {}
BY DEF Overlaps, Cells

(* A region that was checked against an image lies in its mip level.        *)
LEMMA RegionInside ==
    ASSUME NEW config \in ImageDescriptions, config.refused = "none", NEW r \in Regions,
           InsideMip(config, r)
    PROVE  /\ Cells(r.x, r.width) \subseteq Cells(0, LevelSize(config.width, r.mip))
           /\ Cells(r.y, r.height) \subseteq Cells(0, LevelSize(config.height, r.mip))
<1>1. /\ config.width \in Nat /\ config.width # 0 /\ config.height \in Nat /\ config.height # 0
      /\ config.mip_levels \in 0..32
  BY TransferAssumption
<1>2. /\ r.mip \in Nat /\ r.x \in Int /\ r.y \in Int /\ r.width \in Nat /\ r.height \in Nat
  BY DEF Regions
<1>3. /\ r.mip < config.mip_levels /\ r.x >= 0 /\ r.y >= 0
      /\ r.x + r.width <= MipDimension(config.width, r.mip)
      /\ r.y + r.height <= MipDimension(config.height, r.mip)
  BY DEF InsideMip
<1>4. r.mip \in 0..31
  BY <1>1, <1>2, <1>3
<1>5. /\ MipDimension(config.width, r.mip) = LevelSize(config.width, r.mip)
      /\ MipDimension(config.height, r.mip) = LevelSize(config.height, r.mip)
  BY <1>1, <1>4, MipDimensionIsLevelSize
<1> DEFINE width == LevelSize(config.width, r.mip)
           height == LevelSize(config.height, r.mip)
<1>6. width \in Nat /\ height \in Nat
  BY <1>1, <1>2, LevelsHalve
<1>7. r.x + r.width <= width /\ r.y + r.height <= height
  BY <1>3, <1>5
<1> HIDE DEF width, height
<1>8. Cells(r.x, r.width) \subseteq Cells(0, width) /\ Cells(r.y, r.height) \subseteq Cells(0, height)
  BY <1>2, <1>3, <1>6, <1>7 DEF Cells
<1> QED BY <1>8 DEF width, height

-----------------------------------------------------------------------------
(* The theorems                                                            *)

ViewIInv == OwnersInv /\ Accepted /\ ViewsInv

LEMMA ViewInitHolds == ViewInit => ViewIInv
<1> SUFFICES ASSUME ViewInit PROVE ViewIInv
  OBVIOUS
<1> USE DEF ViewInit, ResourcesInit, Live
<1>1. OwnersInv
  BY DEF OwnersInv, ResourcesTypeOK, OneOwnerEach, Balanced, Owned
<1>2. Accepted
  BY DEF Accepted
<1>3. ViewsInv
  BY DEF ViewsInv, ViewTypeOK, ViewsOwned
<1> QED BY <1>1, <1>2, <1>3 DEF ViewIInv

LEMMA ViewStepKeeps == ViewIInv /\ [ViewNext]_imageViewVars => ViewIInv'
<1> SUFFICES ASSUME ViewIInv, [ViewNext]_imageViewVars PROVE ViewIInv'
  OBVIOUS
<1> USE DEF ViewIInv
<1>1. [ResourcesNext]_resourceVars \/ UNCHANGED ownerVars
  BY DEF ViewNext, ParentStep, CreateViewFails, CreateView, MoveView, DestroyView, imageViewVars
<1>2. OwnersInv'
  BY <1>1, ResourcesKeep, OwnersUntouched
<1>3. Accepted'
  BY <1>1, ImagesAccepted DEF Accepted, Live, ownerVars
<1>4. CASE ParentStep
  BY <1>2, <1>3, <1>4, ParentKeeps
<1>5. CASE CreateViewFails \/ UNCHANGED imageViewVars
  <2>1. UNCHANGED <<views, nativeViews, images>>
    BY <1>5 DEF CreateViewFails, imageViewVars, viewVars, resourceVars, ownerVars
  <2> QED BY <1>2, <1>3, <2>1 DEF ViewsInv, ViewTypeOK, ViewsOwned, Stands, NativeDevice, Live
<1>6. CASE \E v \in Views, device \in Devices \cup {Null}, i \in Images, x \in ViewDescriptions :
             CreateView(v, device, i, x)
  BY <1>2, <1>3, <1>6, CreateViewKeeps
<1>7. CASE \E v, w \in Views : MoveView(v, w)
  <2>1. PICK v, w \in Views : MoveView(v, w)
    BY <1>7
  <2>2. ViewsInv'
    BY <2>1, ViewDisplaced DEF MoveView, ownerVars
  <2> QED BY <1>2, <1>3, <2>2
<1>8. CASE \E v \in Views : DestroyView(v)
  <2>1. PICK v \in Views : DestroyView(v)
    BY <1>8
  <2>2. ViewsInv'
    BY <2>1, ViewDisplaced DEF DestroyView, ownerVars
  <2> QED BY <1>2, <1>3, <2>2
<1> QED BY <1>2, <1>3, <1>4, <1>5, <1>6, <1>7, <1>8 DEF ViewNext

LEMMA ViewInvariance == ViewSpec => []ViewIInv
BY ViewInitHolds, ViewStepKeeps, PTL DEF ViewSpec

(* Wrappers, implementations and native objects are what their types say,   *)
(* through every creation, move and destruction (buffer.cpp, image.cpp,     *)
(* image_view.cpp).                                                         *)
THEOREM WrappersAreTyped == ViewSpec => [](ResourcesTypeOK /\ ViewTypeOK)
<1>1. ViewIInv => ResourcesTypeOK /\ ViewTypeOK
  BY DEF ViewIInv, OwnersInv, ViewsInv
<1> QED BY <1>1, ViewInvariance, PTL

(* No buffer or image is leaked, shared or destroyed twice, however many    *)
(* wrappers are moved over one another (~Impl and the move assignments of   *)
(* buffer.cpp and image.cpp).                                               *)
THEOREM OwnersAreUnique == ViewSpec => []OneOwnerEach
<1>1. ViewIInv => OneOwnerEach
  BY DEF ViewIInv, OwnersInv
<1> QED BY <1>1, ViewInvariance, PTL

(* VMA counts as many mappings of an object as its wrapper believes, so the *)
(* destructor always leaves none (Buffer::map, unmap and ~Impl).            *)
THEOREM MappingsAreBalanced == ViewSpec => []MappingsBalanced
<1>1. ViewIInv => MappingsBalanced
  BY Counting DEF ViewIInv
<1> QED BY <1>1, ViewInvariance, PTL

(* The same of the owners on their own, whatever order their calls come in  *)
(* and without the views on them (buffer.cpp, image.cpp).                   *)
THEOREM OwnersAlone == ResourcesSpec => [](OneOwnerEach /\ MappingsBalanced)
<1>1. ResourcesInit => OwnersInv
  BY DEF ResourcesInit, OwnersInv, ResourcesTypeOK, OneOwnerEach, Balanced, Owned, Live
<1>2. OwnersInv => OneOwnerEach /\ MappingsBalanced
  BY Counting DEF OwnersInv
<1> QED BY <1>1, <1>2, ResourcesKeep, PTL DEF ResourcesSpec

(* Every VkImageView is owned once and sees a range inside the one Image it *)
(* is correlated with, for images of any size and the largest counts        *)
(* (createImageView, ImageView::correlatedWith).                            *)
THEOREM ViewsStandOnTheirImage == ViewSpec => []ViewsSeeTheirImage
<1>1. ViewIInv => ViewsSeeTheirImage
  BY ViewsSee DEF ViewIInv
<1> QED BY <1>1, ViewInvariance, PTL

(* flush() and invalidate() hand VMA a range inside the logical buffer, for *)
(* every size up to the largest vk::DeviceSize (synchronize of buffer.cpp). *)
THEOREM CacheMaintenanceStaysInside == ViewSpec => SynchronizedInside
<1>1. ASSUME ViewIInv, [ViewNext]_imageViewVars, synced' # synced
      PROVE  \E b \in Buffers :
               /\ Live(buffers[b])
               /\ buffers[b].handle = synced'.handle /\ buffers[b].mapping
               /\ synced'.size # 0
               /\ synced'.offset + synced'.size <= buffers[b].config.size
  <2>1. PICK b \in Buffers, offset \in Sizes, size \in Sizes : Synchronize(b, offset, size)
    BY <1>1
    DEF ViewNext, ParentStep, CreateViewFails, CreateView, MoveView, DestroyView, imageViewVars, resourceVars,
        ResourcesNext, BufferCalls, ImageCalls, CreateBufferRejected, CreateBufferFails,
        CreateBuffer, Map, Unmap, DestroyBuffer, EndBuffer, MoveBuffer, CreateImageRejected,
        CreateImageFails, CreateImage, MoveImage, DestroyImage
  <2> DEFINE logical == buffers[b].config.size
             bytes == IF size = WholeSize THEN logical - offset ELSE size
  <2>2. /\ SynchronizeError(b, offset, size) = "none"
        /\ synced' = [handle |-> buffers[b].handle, offset |-> offset, size |-> bytes]
    BY <1>1, <2>1 DEF Synchronize
  <2>3. Live(buffers[b]) /\ buffers[b].mapping /\ ~RangeError(logical, offset, size)
    BY <2>2 DEF SynchronizeError
  <2>4. logical \in Nat /\ offset \in Nat /\ size \in Nat
    BY <1>1, <2>3, BufferStands, ResourcesAssumption DEF ViewIInv, BufferImpls, BufferConfigs, Sizes
  <2>5. bytes # 0 /\ offset + bytes <= logical
    BY <2>3, <2>4 DEF RangeError
  <2> QED BY <2>2, <2>3, <2>5
<1>2. ViewIInv /\ [ViewNext]_imageViewVars =>
        [synced' # synced => \E b \in Buffers :
          /\ Live(buffers[b])
          /\ buffers[b].handle = synced'.handle /\ buffers[b].mapping
          /\ synced'.size # 0
          /\ synced'.offset + synced'.size <= buffers[b].config.size]_resourceVars
  BY <1>1
<1> QED BY <1>2, ViewInvariance, PTL DEF ViewSpec, SynchronizedInside

=============================================================================

----------------------------- MODULE UploadBatch -----------------------------
(***************************************************************************)
(* prepareUploadBatch() and recordUploadBatch() of                         *)
(* graphics/upload_batch.cpp: the caller's bytes are packed into one       *)
(* staging buffer, and one native copy per item is recorded later, when    *)
(* the caller may have replaced what the items name.                       *)
(*                                                                         *)
(* prepare runs one action per item and per call on the staging buffer;    *)
(* the caller synchronizes, so nothing else happens before it returns.     *)
(* The wrapper Local is its local Buffer, Owner the one inside the         *)
(* PreparedUploadBatch.  A byte is a pair: the item it belongs to and its  *)
(* place in the item's span.                                               *)
(***************************************************************************)
EXTENDS TransferCommands

CONSTANTS
    Local, Owner,       \* wrappers of the staging buffer
    Descriptions,       \* UploadBatchDescriptions
    MaxRecorded         \* bound: recording calls on one command buffer

\* BufferUploadItem and ImageUploadItem
BufferUploadItems == [destination : Buffers \cup {Null}, offset : Nat, bytes : Nat]
ImageUploadItems ==
    [destination : Images \cup {Null}, layout : STRING, region : Regions, bytes : Nat]

ASSUME UploadAssumption ==
    /\ {Local, Owner} \subseteq Buffers /\ Local # Owner /\ MaxRecorded \in Nat
    /\ \A d \in Descriptions : /\ d.buffers \in Seq(BufferUploadItems)
                              /\ d.images \in Seq(ImageUploadItems)
                              /\ d.staging \in BufferConfigs

Undefined == <<"none", 0, 0>>

VARIABLES
    step,           \* where prepareUploadBatch is; "idle" between calls
    allocator,      \* its arguments
    description,
    copies,         \* PreparedBufferUploads
    uploads,        \* PreparedImageUploads
    staging_bytes,
    host, device,   \* the staging memory as the CPU and as the GPU see it
    batch           \* the PreparedUploadBatch has staging and entries

prepareVars == <<step, allocator, description>>
entryVars == <<copies, uploads, staging_bytes>>
memoryVars == <<host, device>>
uploadVars == <<prepareVars, entryVars, memoryVars, batch>>
vars == <<resourceVars, commandVars, uploadVars>>

Targets == Buffers \ {Local, Owner}

Buffer(b) == IF b = Null THEN Null ELSE buffers[b]
Image(i) == IF i = Null THEN Null ELSE images[i]

\* Variant: the sum may exceed the largest vk::DeviceSize.
FitsStagingAlways(size) == size >= 0

\* withinStaging: the next item starts where the last one ended.
FitsStaging(size) == size <= MaxSize - staging_bytes

-----------------------------------------------------------------------------
(* prepareUploadBatch                                                      *)

PrepareRejected ==
    /\ step = "idle"
    /\ \E a \in Allocators \cup {Null}, d \in Descriptions :
         \/ a = Null /\ Returns("invalid_allocator")
         \/ a # Null /\ d.buffers = <<>> /\ d.images = <<>> /\ Returns("empty_batch")
         \/ a # Null /\ Returns("allocation_failed")
    /\ UNCHANGED <<ownerVars, synced, commandVars, uploadVars>>

PrepareBegins ==
    /\ step = "idle" /\ ~batch /\ ~Live(buffers[Owner])
    /\ \E a \in Allocators, d \in Descriptions :
         /\ d.buffers # <<>> \/ d.images # <<>>
         /\ allocator' = a /\ description' = d
    /\ step' = "items"
    /\ copies' = <<>> /\ uploads' = <<>> /\ staging_bytes' = 0
    /\ host' = <<>> /\ device' = <<>>
    /\ UNCHANGED <<resourceVars, commandVars, batch>>

OverlapsEarlier(target, offset, size) ==
    \E k \in DOMAIN copies :
        /\ Buffer(copies[k].destination).handle = target
        /\ Overlaps(copies[k].destination_offset, copies[k].size, offset, size)

BufferItemError(w) ==
    LET target == Buffer(w.destination)
    IN  IF ~Live(target) THEN "invalid_destination"
        ELSE IF "transfer_dst" \notin target.config.usage THEN "missing_usage"
        ELSE IF target.allocator # allocator THEN "allocator_mismatch"
        ELSE IF w.bytes = 0 THEN "invalid_payload"
        ELSE IF w.bytes % 4 # 0 \/ w.offset % 4 # 0 THEN "unaligned_copy"
        ELSE IF ~Within(target.config.size, w.offset, w.bytes) THEN "invalid_range"
        ELSE IF ~FitsStaging(w.bytes) THEN "invalid_range"
        ELSE IF OverlapsEarlier(target.handle, w.offset, w.bytes) THEN "overlapping_writes"
        ELSE "none"

\* The arguments of prepare and its local vectors are gone.
Forget ==
    /\ step' = "idle"
    /\ allocator' = Null /\ description' = Null
    /\ copies' = <<>> /\ uploads' = <<>> /\ staging_bytes' = 0
    /\ host' = <<>> /\ device' = <<>>

\* prepare returns an error before it created the staging buffer.
Refuse(error) == Returns(error) /\ Forget

\* An entry names the wrapper and keeps nothing of its native buffer.
PrepareBuffer ==
    /\ step = "items" /\ Len(copies) < Len(description.buffers)
    /\ LET w == description.buffers[Len(copies) + 1]
       IN  \/ BufferItemError(w) # "none" /\ Refuse(BufferItemError(w))
           \/ /\ BufferItemError(w) = "none"
              /\ copies' = Append(copies, [destination |-> w.destination,
                                           staging_offset |-> staging_bytes,
                                           destination_offset |-> w.offset, size |-> w.bytes])
              /\ staging_bytes' = staging_bytes + w.bytes
              /\ UNCHANGED <<prepareVars, uploads, memoryVars, outcome>>
    /\ UNCHANGED <<ownerVars, synced, commandVars, batch>>

\* The snapshot of w, placed at offset.
Snapshot(w, offset) ==
    [destination |-> w.destination, image |-> Image(w.destination).handle, layout |-> w.layout,
     region |-> [w.region EXCEPT !.buffer_offset = offset], bytes |-> UploadFootprint(w.region)]

\* What the first earlier entry has against the layout or the texels of w.
ImageClash(w) ==
    LET new == Snapshot(w, 0)
        differs(old) == SameSubresource(old, new) /\ old.layout # new.layout
        clashes == {k \in DOMAIN uploads : differs(uploads[k]) \/ RegionsOverlap(uploads[k], new)}
    IN  IF clashes = {} THEN "none"
        ELSE IF differs(uploads[Min(clashes)]) THEN "conflicting_image_layouts"
        ELSE "overlapping_image_regions"

ImageItemError(w) ==
    LET target == Image(w.destination)
    IN  IF ~Live(target) THEN "invalid_destination"
        ELSE IF target.allocator # allocator THEN "allocator_mismatch"
        ELSE IF ~target.config.rgba8_2d THEN "unsupported_image"
        ELSE IF "transfer_dst" \notin target.config.usage THEN "missing_usage"
        ELSE IF w.layout \notin {"transfer_dst_optimal", "general"} THEN "unsupported_layout"
        ELSE IF w.region.buffer_offset # 0 \/ ~ValidImageRegion(target.config, w.region)
          THEN "invalid_image_region"
        ELSE IF w.bytes = 0 \/ w.bytes # UploadFootprint(w.region) THEN "invalid_image_footprint"
        ELSE IF ~FitsStaging(w.bytes) THEN "invalid_range"
        ELSE ImageClash(w)

PrepareImage ==
    /\ step = "items" /\ Len(copies) = Len(description.buffers)
    /\ Len(uploads) < Len(description.images)
    /\ LET w == description.images[Len(uploads) + 1]
       IN  \/ ImageItemError(w) # "none" /\ Refuse(ImageItemError(w))
           \/ /\ ImageItemError(w) = "none"
              /\ uploads' = Append(uploads, Snapshot(w, staging_bytes))
              /\ staging_bytes' = staging_bytes + w.bytes
              /\ UNCHANGED <<prepareVars, copies, memoryVars, outcome>>
    /\ UNCHANGED <<ownerVars, synced, commandVars, batch>>

StagingDescription ==
    [description.staging EXCEPT !.size = staging_bytes, !.usage = {"transfer_src"}]

ItemsPrepared ==
    /\ Len(copies) = Len(description.buffers)
    /\ Len(uploads) = Len(description.images)

CreateStaging ==
    /\ step = "items" /\ ItemsPrepared
    /\ \/ /\ CreateBuffer(Local, allocator, StagingDescription)
          /\ step' = "map"
          /\ UNCHANGED <<allocator, description, entryVars, memoryVars>>
       \/ CreateBufferRejected(allocator, StagingDescription) /\ Forget
       \/ CreateBufferFails(allocator, StagingDescription) /\ Forget
    /\ UNCHANGED <<commandVars, batch>>

\* A call on the local Buffer succeeds, or prepare returns its error.
Continues(next) == step' = IF outcome' = "ok" THEN next ELSE "unwind"

MapStaging ==
    /\ step = "map" /\ Map(Local) /\ Continues("write")
    /\ UNCHANGED <<commandVars, allocator, description, entryVars, memoryVars, batch>>

\* The byte that the copies of all spans leave at i.
Packed(i) ==
    LET from(offset, size) == i \in offset..offset + size - 1
        b == {k \in DOMAIN copies : from(copies[k].staging_offset, copies[k].size)}
        m == {k \in DOMAIN uploads : from(uploads[k].region.buffer_offset, uploads[k].bytes)}
    IN  IF m # {} THEN <<"image", Max(m), i - uploads[Max(m)].region.buffer_offset>>
        ELSE IF b # {} THEN <<"buffer", Max(b), i - copies[Max(b)].staging_offset>>
        ELSE Undefined

WriteStaging ==
    /\ step = "write"
    /\ host' = [i \in 0..staging_bytes - 1 |-> Packed(i)]
    /\ step' = "flush"
    /\ UNCHANGED <<resourceVars, commandVars, allocator, description, entryVars, device, batch>>

Flush(size) ==
    /\ step = "flush"
    /\ Synchronize(Local, 0, size) /\ Continues("unmap")
    /\ device' = IF outcome' = "ok"
                   THEN [i \in DOMAIN host |->
                           IF i \in synced'.offset..synced'.offset + synced'.size - 1
                             THEN host[i] ELSE Undefined]
                   ELSE device
    /\ UNCHANGED <<commandVars, allocator, description, entryVars, host, batch>>

\* Variant: the size of the first item only.
FlushFirst ==
    Flush(IF copies = <<>> THEN uploads[1].bytes ELSE copies[1].size)

FlushStaging == Flush(WholeSize)

\* Variant: the staging buffer is published mapped.
UnmapLater ==
    /\ step = "unmap" /\ step' = "publish"
    /\ UNCHANGED <<resourceVars, commandVars, allocator, description, entryVars, memoryVars, batch>>

UnmapStaging ==
    /\ step = "unmap" /\ Unmap(Local) /\ Continues("publish")
    /\ UNCHANGED <<commandVars, allocator, description, entryVars, memoryVars, batch>>

PublishBatch ==
    /\ step = "publish"
    /\ MoveBuffer(Owner, Local)
    /\ batch' = TRUE /\ step' = "idle"
    /\ UNCHANGED <<commandVars, allocator, description, entryVars, memoryVars>>

\* The local Buffer ends with the call that failed.
Unwind ==
    /\ step = "unwind" /\ EndBuffer(Local) /\ Forget
    /\ UNCHANGED <<outcome, commandVars, batch>>

-----------------------------------------------------------------------------
(* recordUploadBatch                                                       *)

Staging == buffers[Owner]

CopyEntryError(c) ==
    LET target == Buffer(c.destination)
    IN  IF ~Live(target) THEN "invalid_destination"
        ELSE IF target.allocator # Staging.allocator THEN "allocator_mismatch"
        ELSE IF "transfer_dst" \notin target.config.usage THEN "missing_usage"
        ELSE IF \/ c.staging_offset % 4 # 0 \/ c.destination_offset % 4 # 0
                \/ c.size % 4 # 0 THEN "unaligned_copy"
        ELSE IF \/ ~Within(Staging.config.size, c.staging_offset, c.size)
                \/ ~Within(target.config.size, c.destination_offset, c.size) THEN "invalid_range"
        ELSE "none"

\* Variant: the region is not looked at again.
ImageEntryErrorTrusting(d, u) ==
    IF ~Live(Image(u.destination)) THEN "invalid_destination"
    ELSE IF Image(u.destination).handle # u.image THEN "invalid_destination"
    ELSE "none"

ImageEntryError(d, u) ==
    LET target == Image(u.destination)
    IN  IF ~Live(target) THEN "invalid_destination"
        ELSE IF target.handle # u.image THEN "invalid_destination"
        ELSE IF target.allocator # Staging.allocator THEN "allocator_mismatch"
        ELSE IF DeviceOf[target.allocator] # d THEN "parent_mismatch"
        ELSE IF ~target.config.rgba8_2d THEN "unsupported_image"
        ELSE IF "transfer_dst" \notin target.config.usage THEN "missing_usage"
        ELSE IF u.layout \notin {"transfer_dst_optimal", "general"} THEN "unsupported_layout"
        ELSE IF ~ValidImageRegion(target.config, u.region) THEN "invalid_image_region"
        ELSE IF \/ UploadFootprint(u.region) # u.bytes
                \/ ~Within(Staging.config.size, u.region.buffer_offset, u.bytes)
          THEN "invalid_image_footprint"
        ELSE "none"

PairError ==
    IF \E j, k \in DOMAIN copies :
          /\ j < k /\ Buffer(copies[j].destination).handle = Buffer(copies[k].destination).handle
          /\ Overlaps(copies[j].destination_offset, copies[j].size,
                      copies[k].destination_offset, copies[k].size)
      THEN "overlapping_writes" ELSE "none"

\* Layouts and regions are the batch's own: prepare compared the same values.
ImagePairError ==
    IF \E j, k \in DOMAIN uploads : /\ j < k /\ SameSubresource(uploads[j], uploads[k])
                                    /\ uploads[j].layout # uploads[k].layout
      THEN "conflicting_image_layouts"
    ELSE IF \E j, k \in DOMAIN uploads : j < k /\ RegionsOverlap(uploads[j], uploads[k])
      THEN "overlapping_image_regions"
    ELSE "none"

\* Everything is validated before the first native call.
RecordUploadError(d) ==
    IF ~batch THEN "invalid_batch"
    ELSE IF RecordingError(d) # "none" THEN RecordingError(d)
    ELSE IF command.protected THEN "protected_recording"
    ELSE IF ~Live(Staging) \/ "transfer_src" \notin Staging.config.usage THEN "invalid_batch"
    ELSE LET buffer == FirstError([k \in DOMAIN copies |-> CopyEntryError(copies[k])])
             image == FirstError([k \in DOMAIN uploads |-> ImageEntryError(d, uploads[k])])
         IN  IF buffer # "none" THEN buffer
             ELSE IF PairError # "none" THEN PairError
             ELSE IF image # "none" THEN image ELSE ImagePairError

BufferCommands ==
    [k \in DOMAIN copies |->
        [item |-> <<"buffer", k>>, src |-> Staging.handle, dst |-> Buffer(copies[k].destination).handle,
         region |-> [src_offset |-> copies[k].staging_offset,
                     dst_offset |-> copies[k].destination_offset, size |-> copies[k].size]]]

ImageCommands ==
    [k \in DOMAIN uploads |->
        [item |-> <<"image", k>>, src |-> Staging.handle, dst |-> Image(uploads[k].destination).handle,
         layout |-> uploads[k].layout, region |-> uploads[k].region]]

RecordUpload ==
    /\ step = "idle" /\ Len(recorded) < MaxRecorded
    /\ \E d \in Devices \cup {Null} :
         LET buffer(k) == CopyBufferError(d, Staging, Buffer(copies[k].destination),
                                          BufferCommands[k].region)
             image(k) == CopyImageError(d, Staging, Image(uploads[k].destination), "transfer_src",
                                        "transfer_dst", uploads[k].region)
         IN  \/ /\ RecordUploadError(d) # "none" /\ Returns(RecordUploadError(d))
                /\ UNCHANGED recorded
             \/ /\ RecordUploadError(d) = "none"
                /\ RecordAll(BufferCommands \o ImageCommands,
                             [k \in DOMAIN copies |-> buffer(k)] \o
                             [k \in DOMAIN uploads |-> image(k)])
    /\ UNCHANGED <<ownerVars, synced, command, uploadVars>>

-----------------------------------------------------------------------------
(* The application                                                         *)

\* A batch moves into a RetirementQueue; the wrapper it leaves is not valid().
RetireBatch ==
    /\ step = "idle" /\ batch
    /\ batch' = FALSE
    /\ Returns("ok")
    /\ UNCHANGED <<ownerVars, synced, commandVars, prepareVars, entryVars, memoryVars>>

\* The staging buffer lives as long as recorded commands use it.
ReleaseStaging ==
    /\ step = "idle" /\ recorded = <<>>
    /\ DestroyBuffer(Owner)
    /\ batch' = FALSE
    /\ Forget
    /\ UNCHANGED commandVars

\* "All destination Buffer wrappers must remain stable between prepare/record":
\* here the application may break that rule, and replace one by accident.
BufferTargetChanges ==
    /\ step = "idle" /\ recorded = <<>>
    /\ \/ \E b \in Targets, a \in Allocators, d \in BufferDescriptions : CreateBuffer(b, a, d)
       \/ \E b \in Targets : DestroyBuffer(b)
       \/ \E b, c \in Targets : MoveBuffer(b, c)
    /\ UNCHANGED <<commandVars, uploadVars>>

\* Images may be replaced before their batch is recorded.
ImageTargetChanges ==
    /\ step = "idle" /\ recorded = <<>>
    /\ \/ \E i \in Images, a \in Allocators, d \in ImageDescriptions : CreateImage(i, a, d)
       \/ \E i \in Images : DestroyImage(i)
       \/ \E i, j \in Images : MoveImage(i, j)
    /\ UNCHANGED <<commandVars, uploadVars>>

CommandChanges == step = "idle" /\ (BeginCommand \/ FinishCommand) /\ UNCHANGED uploadVars

-----------------------------------------------------------------------------
Init ==
    /\ ResourcesInit /\ TransferInit
    /\ step = "idle" /\ allocator = Null /\ description = Null /\ batch = FALSE
    /\ copies = <<>> /\ uploads = <<>> /\ staging_bytes = 0
    /\ host = <<>> /\ device = <<>>

Prepare ==
    \/ PrepareRejected \/ PrepareBegins \/ PrepareBuffer \/ PrepareImage
    \/ CreateStaging \/ MapStaging \/ WriteStaging \/ FlushStaging \/ UnmapStaging
    \/ PublishBatch \/ Unwind

Application ==
    \/ RetireBatch \/ ReleaseStaging
    \/ BufferTargetChanges \/ ImageTargetChanges \/ CommandChanges

Next == Prepare \/ RecordUpload \/ Application

Spec == Init /\ [][Next]_vars

-----------------------------------------------------------------------------
(* Properties                                                              *)

\* Where the items of the batch lie in the staging buffer, in order.
Spans ==
    [k \in DOMAIN copies |-> [offset |-> copies[k].staging_offset, size |-> copies[k].size]] \o
    [k \in DOMAIN uploads |-> [offset |-> uploads[k].region.buffer_offset, size |-> uploads[k].bytes]]

(* The items lie back to back from the start of the staging buffer, each on *)
(* the multiple of four that copies of texels need, and end inside it: the  *)
(* additions that place them never exceed the largest vk::DeviceSize.       *)
PackedStaging ==
    /\ \A k \in DOMAIN Spans :
         /\ Spans[k].offset % 4 = 0
         /\ Spans[k].offset = (IF k = 1 THEN 0 ELSE Spans[k - 1].offset + Spans[k - 1].size)
         /\ Spans[k].offset + Spans[k].size <= staging_bytes
    /\ staging_bytes <= MaxSize
    /\ batch => Staging.config.size = staging_bytes

\* The item of the description that a command copies.
ItemOf(c) ==
    IF c.item[1] = "buffer" THEN description.buffers[c.item[2]] ELSE description.images[c.item[2]]

Start(c) == IF c.item[1] = "buffer" THEN c.region.src_offset ELSE c.region.buffer_offset

(* What the GPU executes is what the caller asked for when it prepared: all *)
(* bytes of the item, flushed to the memory the GPU reads, go into the      *)
(* native image the item named then, although wrappers were moved,          *)
(* destroyed and created again before the batch was recorded.  A buffer     *)
(* item goes to what the wrapper it named holds when it is recorded.        *)
DeliversPayload ==
    \A n \in DOMAIN recorded : \A c \in Range(recorded[n]) :
        LET k == c.item[2] IN
        /\ c.src = Staging.handle
        /\ \A i \in 0..ItemOf(c).bytes - 1 : device[Start(c) + i] = <<c.item[1], k, i>>
        /\ IF c.item[1] = "buffer"
             THEN /\ c.dst = Buffer(copies[k].destination).handle
                  /\ c.region.size = ItemOf(c).bytes /\ c.region.dst_offset = ItemOf(c).offset
             ELSE /\ c.dst = uploads[k].image /\ c.layout = ItemOf(c).layout
                  /\ c.region = [ItemOf(c).region EXCEPT !.buffer_offset = Start(c)]

\* The implementation that owns the native object h.
BufferOf(h) == CHOOSE x \in {buffers[b] : b \in Buffers} : Live(x) /\ x.handle = h
ImageOf(h) == CHOOSE x \in {images[i] : i \in Images} : Live(x) /\ x.handle = h

BufferBytes(c) == Cells(c.region.dst_offset, c.region.size)

Texels(c) == Cells(c.region.x, c.region.width) \X Cells(c.region.y, c.region.height)

ValidCommand(c) ==
    IF c.item[1] = "buffer"
      THEN /\ BufferBytes(c) \subseteq Cells(0, BufferOf(c.dst).config.size)
           /\ Cells(c.region.src_offset, c.region.size) \subseteq DOMAIN device
      ELSE /\ c.region.mip < ImageOf(c.dst).config.mip_levels
           /\ Texels(c) \subseteq MipTexels(ImageOf(c.dst).config, c.region.mip)
           /\ Cells(c.region.buffer_offset, (RowTexels(c.region) * (c.region.height - 1)
                                               + c.region.width) * Texel) \subseteq DOMAIN device

\* Two commands of one call write different places, in one layout.
Compatible(c, d) ==
    c.dst = d.dst =>
        IF c.item[1] = "buffer" THEN BufferBytes(c) \cap BufferBytes(d) = {}
        ELSE <<c.region.mip, c.region.layer>> = <<d.region.mip, d.region.layer>> =>
               Texels(c) \cap Texels(d) = {} /\ c.layout = d.layout

(* The copies that one recordUploadBatch() recorded are legal for the       *)
(* objects as they are, which may have been made after the preparation, and *)
(* no order in which the GPU runs them changes what is written.             *)
RecordedCopiesAreValid ==
    \A n \in DOMAIN recorded :
        /\ \A c \in Range(recorded[n]) : ValidCommand(c)
        /\ \A j, k \in DOMAIN recorded[n] : j # k => Compatible(recorded[n][j], recorded[n][k])

(* "Validate every Buffer and Image entry before the first native vkCmd     *)
(* call": once a call records a command it records those of all items.      *)
NeverPartial ==
    [][recorded' \notin {recorded, <<>>} =>
         /\ outcome' = "ok"
         /\ recorded' = Append(recorded, BufferCommands \o ImageCommands)]_vars

(* Whatever call on the staging buffer failed, between calls no local       *)
(* staging buffer is left and the one of a batch is not mapped.             *)
StagingLifecycle ==
    step = "idle" =>
        /\ ~Live(buffers[Local])
        /\ batch => Live(Staging)
        /\ Live(Staging) => ~Staging.mapping /\ native[Staging.handle].maps = 0
=============================================================================

---------------------------- MODULE ReadbackBatch ----------------------------
(***************************************************************************)
(* prepareReadbackBatch(), recordReadbackBatch() and                       *)
(* tryCopyCompletedReadbackBatch() of graphics/readback_batch.cpp: ranges  *)
(* of buffers and regions of images are copied by the GPU into one staging *)
(* buffer, and from there to the CPU once every use of it has completed.   *)
(*                                                                         *)
(* prepare runs one action per item and per call on the staging buffer.    *)
(* The GPU runs while tryCopy polls the receipts one after the other, and  *)
(* its writes are not atomic: bytes are undefined while a submission runs. *)
(* The wrapper Local is prepare's local Buffer, Owner the one inside the   *)
(* PreparedReadbackBatch.  A byte of a source is a tuple: the item that    *)
(* reads it and its place in the buffer, or its texel and its place there. *)
(* There is one batch at a time.                                           *)
(***************************************************************************)
EXTENDS TransferCommands

CONSTANTS
    Local, Owner,       \* wrappers of the staging buffer
    Descriptions,       \* ReadbackBatchDescriptions
    Barriers,           \* the barriers the application gives recordBarriers
    ImageCopies,        \* the regions it gives recordCopyImage
    MaxRecorded,        \* bound: recording calls on one command buffer
    MaxUses             \* bound: submissions that use the staging buffer

\* BufferReadbackItem, ImageReadbackItem, and the entries made of them
BufferReadbackItems == [source : Buffers \cup {Null}, offset : Nat, size : Nat]
ImageReadbackItems == [source : Images \cup {Null}, layout : STRING, region : Regions]
PreparedBufferReadbacks ==
    [source : Buffers \cup {Null}, expected : Handles, source_offset : Nat, staging_offset : Nat,
     size : Nat]
PreparedImageReadbacks ==
    [source : Images \cup {Null}, image : Handles, layout : STRING, region : Regions,
     payload : Nat]

\* PreparedReadbackBatch
Batches ==
    [copies : Seq(PreparedBufferReadbacks), images : Seq(PreparedImageReadbacks), size : Sizes]

ASSUME ReadbackAssumption ==
    /\ {Local, Owner} \subseteq Buffers /\ Local # Owner
    /\ MaxRecorded \in Nat /\ MaxUses \in Nat
    /\ ImageCopies \subseteq [src : Regions, dst : Regions]
    /\ \A d \in Descriptions : /\ d.buffers \in Seq(BufferReadbackItems)
                              /\ d.images \in Seq(ImageReadbackItems)
                              /\ d.staging \in BufferConfigs
    /\ Null \notin Batches

Zero == <<"zero">>
Undefined == <<"undefined">>

VARIABLES
    step,           \* where prepare or tryCopy is; "idle" between calls
    allocator,      \* the arguments of prepare
    description,
    batch,          \* the PreparedReadbackBatch, or Null: its copies, images and size
    uses,           \* the submissions that use the staging buffer, as the GPU runs them
    device,         \* the staging memory as the GPU sees it
    host,           \* tryCopy: the staging memory as the CPU sees it ...
    polled,         \* ... how many receipts it has polled ...
    pending,        \* ... whether one had not completed ...
    bytes,          \* ... its local vector ...
    published       \* ... and the CompletedReadbackBatch it returned, or Null

prepareVars == <<allocator, description>>
gpuVars == <<uses, device>>
callVars == <<host, polled, pending, bytes, published>>
readbackVars == <<step, prepareVars, batch, gpuVars, callVars>>
vars == <<resourceVars, commandVars, readbackVars>>

Sources == Buffers \ {Local, Owner}

Buffer(b) == IF b = Null THEN Null ELSE buffers[b]
Image(i) == IF i = Null THEN Null ELSE images[i]
Staging == buffers[Owner]

-----------------------------------------------------------------------------
(* prepareReadbackBatch                                                    *)

PrepareError(a, d) ==
    IF a = Null THEN "invalid_allocator"
    ELSE IF d.buffers = <<>> /\ d.images = <<>> THEN "empty_batch"
    ELSE IF d.staging.access = "no_host_access" THEN "unsupported_host_access"
    ELSE "none"

PrepareRejected ==
    /\ step = "idle" /\ batch = Null
    /\ \E a \in Allocators \cup {Null}, d \in Descriptions :
         \/ PrepareError(a, d) # "none" /\ Returns(PrepareError(a, d))
         \/ PrepareError(a, d) = "none" /\ Returns("allocation_failed")
    /\ UNCHANGED <<ownerVars, synced, commandVars, readbackVars>>

PrepareBegins ==
    /\ step = "idle" /\ batch = Null
    /\ \E a \in Allocators, d \in Descriptions :
         PrepareError(a, d) = "none" /\ allocator' = a /\ description' = d
    /\ batch' = [copies |-> <<>>, images |-> <<>>, size |-> 0]
    /\ step' = "items"
    /\ UNCHANGED <<resourceVars, commandVars, gpuVars, callVars>>

\* prepare returns an error before it created the staging buffer.
Refuse(error) ==
    /\ Returns(error)
    /\ step' = "idle" /\ batch' = Null /\ allocator' = Null /\ description' = Null

BufferItemError(r) ==
    LET source == Buffer(r.source)
    IN  IF ~Live(source) THEN "invalid_source"
        ELSE IF source.allocator # allocator THEN "allocator_mismatch"
        ELSE IF "transfer_src" \notin source.config.usage THEN "missing_usage"
        ELSE IF ~Within(source.config.size, r.offset, r.size) THEN "invalid_range"
        ELSE IF r.size > MaxSize - batch.size THEN "invalid_range"
        ELSE "none"

PrepareBuffer ==
    /\ step = "items" /\ Len(batch.copies) < Len(description.buffers)
    /\ LET r == description.buffers[Len(batch.copies) + 1]
           entry == [source |-> r.source, expected |-> Buffer(r.source).handle,
                     source_offset |-> r.offset, staging_offset |-> batch.size, size |-> r.size]
       IN  \/ BufferItemError(r) # "none" /\ Refuse(BufferItemError(r))
           \/ /\ BufferItemError(r) = "none"
              /\ batch' = [batch EXCEPT !.copies = Append(@, entry), !.size = @ + r.size]
              /\ UNCHANGED <<outcome, step, prepareVars>>
    /\ UNCHANGED <<ownerVars, synced, commandVars, gpuVars, callVars>>

\* Variant: an image follows an odd-sized buffer range at once.
NoPadding(size) == size * 0

Padding(size) == (4 - (size % 4)) % 4

FitsReadback(size, payload) ==
    /\ Padding(size) <= MaxSize - size
    /\ payload <= MaxSize - (size + Padding(size))

ImageSnapshot(r) ==
    [source |-> r.source, image |-> Image(r.source).handle, layout |-> r.layout,
     region |-> [r.region EXCEPT !.buffer_offset = batch.size + Padding(batch.size)],
     payload |-> ReadbackFootprint(r.region)]

LayoutsDiffer(a, b) == SameSubresource(a, b) /\ a.layout # b.layout

Layouts == {"transfer_src_optimal", "general"}

ImageItemError(r) ==
    LET source == Image(r.source)
    IN  IF ~Live(source) THEN "invalid_source"
        ELSE IF source.allocator # allocator THEN "allocator_mismatch"
        ELSE IF ~source.config.rgba8_2d THEN "unsupported_image"
        ELSE IF "transfer_src" \notin source.config.usage THEN "missing_usage"
        ELSE IF r.layout \notin Layouts THEN "unsupported_layout"
        ELSE IF r.region.buffer_offset # 0 \/ ~ValidImageRegion(source.config, r.region)
          THEN "invalid_image_region"
        ELSE IF \/ ReadbackFootprint(r.region) = Overflow
                \/ ~FitsReadback(batch.size, ReadbackFootprint(r.region))
          THEN "invalid_image_footprint"
        ELSE IF \E k \in DOMAIN batch.images : LayoutsDiffer(batch.images[k], ImageSnapshot(r))
          THEN "conflicting_image_layouts"
        ELSE "none"

PrepareImage ==
    /\ step = "items" /\ Len(batch.copies) = Len(description.buffers)
    /\ Len(batch.images) < Len(description.images)
    /\ LET r == description.images[Len(batch.images) + 1]
           entry == ImageSnapshot(r)
       IN  \/ ImageItemError(r) # "none" /\ Refuse(ImageItemError(r))
           \/ /\ ImageItemError(r) = "none"
              /\ batch' = [batch EXCEPT !.images = Append(@, entry),
                                        !.size = entry.region.buffer_offset + entry.payload]
              /\ UNCHANGED <<outcome, step, prepareVars>>
    /\ UNCHANGED <<ownerVars, synced, commandVars, gpuVars, callVars>>

StagingDescription ==
    [description.staging EXCEPT !.size = batch.size, !.usage = {"transfer_dst"}]

CreateStaging ==
    /\ step = "items"
    /\ Len(batch.copies) = Len(description.buffers) /\ Len(batch.images) = Len(description.images)
    /\ \/ /\ CreateBuffer(Local, allocator, StagingDescription)
          /\ step' = "inspect" /\ allocator' = Null /\ description' = Null
          /\ UNCHANGED batch
       \/ /\ CreateBufferRejected(allocator, StagingDescription)
          /\ Refuse(CreateBufferError(allocator, StagingDescription))
       \/ CreateBufferFails(allocator, StagingDescription) /\ Refuse("native")
    /\ UNCHANGED <<commandVars, gpuVars, callVars>>

\* Variant: memory that VMA placed out of the CPU's reach is accepted.
PrepareAccepts ==
    /\ step = "inspect"
    /\ MoveBuffer(Owner, Local)
    /\ device' = [i \in 0..batch.size - 1 |-> Undefined]
    /\ step' = "idle"
    /\ UNCHANGED <<commandVars, prepareVars, batch, uses, callVars>>

\* allocationInfo() tells what memory VMA chose.
PrepareInspects ==
    \/ /\ step = "inspect" /\ native[buffers[Local].handle].visible
       /\ PrepareAccepts
    \/ /\ step = "inspect" /\ ~native[buffers[Local].handle].visible
       /\ EndBuffer(Local) /\ Returns("unsupported_host_access")
       /\ batch' = Null /\ step' = "idle"
       /\ UNCHANGED <<commandVars, prepareVars, gpuVars, callVars>>

-----------------------------------------------------------------------------
(* recordReadbackBatch                                                     *)

\* Variant: the buffer behind the wrapper may be another one.
CopyEntryErrorMoved(c) ==
    LET source == Buffer(c.source)
    IN  IF ~Live(source) THEN "invalid_source"
        ELSE IF ~Within(source.config.size, c.source_offset, c.size) THEN "invalid_range"
        ELSE IF "transfer_src" \notin source.config.usage THEN "missing_usage"
        ELSE "none"

CopyEntryError(c) ==
    LET source == Buffer(c.source)
    IN  IF ~Live(source) THEN "invalid_source"
        ELSE IF source.handle # c.expected THEN "invalid_source"
        ELSE IF source.allocator # Staging.allocator THEN "allocator_mismatch"
        ELSE IF "transfer_src" \notin source.config.usage THEN "missing_usage"
        ELSE IF \/ ~Within(source.config.size, c.source_offset, c.size)
                \/ ~Within(Staging.config.size, c.staging_offset, c.size) THEN "invalid_range"
        ELSE "none"

ImageEntryError(d, u) ==
    LET source == Image(u.source)
    IN  IF ~Live(source) THEN "invalid_source"
        ELSE IF source.handle # u.image THEN "invalid_source"
        ELSE IF source.allocator # Staging.allocator THEN "allocator_mismatch"
        ELSE IF DeviceOf[source.allocator] # d THEN "parent_mismatch"
        ELSE IF ~source.config.rgba8_2d THEN "unsupported_image"
        ELSE IF "transfer_src" \notin source.config.usage THEN "missing_usage"
        ELSE IF u.layout \notin Layouts THEN "unsupported_layout"
        ELSE IF ~ValidImageRegion(source.config, u.region) THEN "invalid_image_region"
        ELSE IF \/ ReadbackFootprint(u.region) # u.payload
                \/ ~Within(Staging.config.size, u.region.buffer_offset, u.payload)
          THEN "invalid_image_footprint"
        ELSE "none"

LayoutsError ==
    IF \E j, k \in DOMAIN batch.images :
          j < k /\ LayoutsDiffer(batch.images[j], batch.images[k])
      THEN "conflicting_image_layouts" ELSE "none"

\* Everything is validated before the first native call.
RecordReadbackError(d) ==
    IF batch = Null THEN "invalid_batch"
    ELSE IF RecordingError(d) # "none" THEN RecordingError(d)
    ELSE IF command.protected THEN "protected_recording"
    ELSE IF \/ "transfer_dst" \notin Staging.config.usage
            \/ Staging.config.size # batch.size THEN "invalid_batch"
    ELSE LET buffer == FirstError([k \in DOMAIN batch.copies |-> CopyEntryError(batch.copies[k])])
             image == FirstError([k \in DOMAIN batch.images |->
                                     ImageEntryError(d, batch.images[k])])
         IN  IF buffer # "none" THEN buffer
             ELSE IF image # "none" THEN image ELSE LayoutsError

BufferCommands ==
    [k \in DOMAIN batch.copies |->
        LET c == batch.copies[k]
        IN  [item |-> <<"buffer", k>>, src |-> Buffer(c.source).handle, dst |-> Staging.handle,
             region |-> [src_offset |-> c.source_offset, dst_offset |-> c.staging_offset,
                         size |-> c.size]]]

ImageCommands ==
    [k \in DOMAIN batch.images |->
        LET u == batch.images[k]
        IN  [item |-> <<"image", k>>, src |-> Image(u.source).handle, dst |-> Staging.handle,
             layout |-> u.layout, region |-> u.region]]

RecordReadback ==
    /\ step = "idle" /\ Len(recorded) < MaxRecorded
    /\ \E d \in Devices \cup {Null} :
         LET buffer(k) == CopyBufferError(d, Buffer(batch.copies[k].source), Staging,
                                          BufferCommands[k].region)
             image(k) == CopyImageError(d, Staging, Image(batch.images[k].source), "transfer_dst",
                                        "transfer_src", batch.images[k].region)
         IN  \/ /\ RecordReadbackError(d) # "none" /\ Returns(RecordReadbackError(d))
                /\ UNCHANGED recorded
             \/ /\ RecordReadbackError(d) = "none"
                /\ RecordAll(BufferCommands \o ImageCommands,
                             [k \in DOMAIN batch.copies |-> buffer(k)] \o
                             [k \in DOMAIN batch.images |-> image(k)])
    /\ UNCHANGED <<ownerVars, synced, command, readbackVars>>

\* The application records commands of its own beside the batch; bounds of the
\* model: while a prepared batch waits for it, and not into a finished command.
RecordOwn ==
    /\ step = "idle" /\ Len(recorded) < MaxRecorded /\ uses = <<>> /\ batch # Null
    /\ command # Null /\ command.state = "recording"
    /\ \E d \in Devices :
         \/ \E barriers \in Barriers : RecordBarriers(d, barriers)
         \/ \E i, j \in Images, r \in ImageCopies : RecordCopyImage(d, images[i], images[j], r)
    /\ UNCHANGED <<ownerVars, synced, command, readbackVars>>

\* The commands of the batch, and the image copies of the application.
OfBatch == {c \in UNION {Range(recorded[n]) : n \in DOMAIN recorded} : "item" \in DOMAIN c}
OwnCopies ==
    {c \in UNION {Range(recorded[n]) : n \in DOMAIN recorded} : DOMAIN c = {"src", "dst", "region"}}

-----------------------------------------------------------------------------
(* Submissions                                                             *)

InFlight == \E n \in DOMAIN uses : uses[n].run \in {"submitted", "running"}

\* The application submits the command buffer, and keeps the receipt.
SubmitUse ==
    /\ step = "idle" /\ Len(uses) < MaxUses
    /\ command # Null /\ OfBatch # {} /\ command.state = "executable"
    /\ uses' = Append(uses, [device |-> command.device, run |-> "submitted"])
    /\ Returns("ok")
    /\ UNCHANGED <<ownerVars, synced, commandVars, step, prepareVars, batch, device, callVars>>

\* What the recorded commands write at i, if they write there.
WrittenAt(i) ==
    LET buffer == {k \in DOMAIN batch.copies :
                      LET c == batch.copies[k]
                      IN  i \in c.staging_offset..c.staging_offset + c.size - 1}
        place(k) == i - batch.images[k].region.buffer_offset
        pitch(k) == RowTexels(batch.images[k].region) * Texel
        image == {k \in DOMAIN batch.images :
                     /\ place(k) \in 0..batch.images[k].payload - 1
                     /\ place(k) % pitch(k) < batch.images[k].region.width * Texel}
    IN  IF buffer # {}
          THEN LET k == Min(buffer)
                   c == batch.copies[k]
               IN  <<"buffer", k, c.source_offset + i - c.staging_offset>>
        ELSE IF image # {}
          THEN LET k == Min(image)
                   at == place(k) % pitch(k)
               IN  <<"image", k, batch.images[k].region.x + at \div Texel,
                     batch.images[k].region.y + place(k) \div pitch(k), at % Texel>>
        ELSE Zero

Written == {i \in DOMAIN device : WrittenAt(i) # Zero}

\* The submissions run one after the other: the caller's barriers order them.
GpuStarts(n) ==
    /\ n \in DOMAIN uses /\ uses[n].run = "submitted"
    /\ \A m \in DOMAIN uses : uses[m].run # "running"
    /\ uses' = [uses EXCEPT ![n].run = "running"]
    /\ device' = [i \in DOMAIN device |-> IF i \in Written THEN Undefined ELSE device[i]]
    /\ UNCHANGED <<resourceVars, commandVars, step, prepareVars, batch, callVars>>

GpuCompletes(n) ==
    /\ n \in DOMAIN uses /\ uses[n].run = "running"
    /\ uses' = [uses EXCEPT ![n].run = "completed"]
    /\ device' = [i \in DOMAIN device |-> IF i \in Written THEN WrittenAt(i) ELSE device[i]]
    /\ UNCHANGED <<resourceVars, commandVars, step, prepareVars, batch, callVars>>

DeviceLost ==
    /\ InFlight
    /\ uses' = [n \in DOMAIN uses |->
                   IF uses[n].run = "completed" THEN uses[n] ELSE [uses[n] EXCEPT !.run = "lost"]]
    /\ UNCHANGED <<resourceVars, commandVars, step, prepareVars, batch, device, callVars>>

-----------------------------------------------------------------------------
(* tryCopyCompletedReadbackBatch                                           *)

localVars == <<host, polled, pending, bytes>>

\* tryCopy returns: its locals and the mapped view are gone.
Leave ==
    /\ step' = "idle"
    /\ host' = <<>> /\ polled' = 0 /\ pending' = FALSE /\ bytes' = <<>>

TryCopyError(d) ==
    IF batch = Null THEN "invalid_batch"
    ELSE IF d = Null THEN "invalid_device"
    ELSE IF uses = <<>> THEN "missing_completion"
    ELSE "none"

TryCopyRejected ==
    /\ step = "idle"
    /\ \E d \in Devices \cup {Null} :
         \/ /\ TryCopyError(d) # "none" /\ Returns(TryCopyError(d))
         \/ /\ TryCopyError(d) = "none" /\ \E n \in DOMAIN uses : uses[n].device # d
            /\ outcome' \in {"invalid_completion", "native"}
    /\ UNCHANGED <<ownerVars, synced, commandVars, readbackVars>>

\* The caller gives the receipts of all uses.
TryCopy ==
    /\ step = "idle" /\ batch # Null /\ uses # <<>>
    /\ \E d \in Devices : \A n \in DOMAIN uses : uses[n].device = d
    /\ step' = "poll" /\ published' = Null
    /\ UNCHANGED <<resourceVars, commandVars, prepareVars, batch, gpuVars, localVars>>

\* Variant: a later receipt that completed makes up for an earlier one.
NotCompletedLast(n) == uses[n].run # "completed"

\* What is pending once the n-th receipt was polled.
NotCompleted(n) == pending \/ uses[n].run # "completed"

PollAnswers(n) ==
    /\ step = "poll" /\ polled + 1 = n /\ n \in DOMAIN uses
    /\ uses[n].run # "lost"
    /\ polled' = n /\ pending' = NotCompleted(n)
    /\ UNCHANGED <<resourceVars, commandVars, step, prepareVars, batch, gpuVars>>
    /\ UNCHANGED <<host, bytes, published>>

\* vkGetFenceStatus or vkGetSemaphoreCounterValue fails: at once for a lost
\* device, and at any time for want of memory.
PollFails ==
    /\ step = "poll" /\ polled < Len(uses)
    /\ Returns("native") /\ Leave
    /\ UNCHANGED <<ownerVars, synced, commandVars, prepareVars, batch, gpuVars, published>>

PolledAll ==
    /\ step = "poll" /\ polled = Len(uses)
    /\ \/ pending /\ Returns("completion_pending") /\ Leave
       \/ ~pending /\ Returns("allocation_failed") /\ Leave
       \/ /\ ~pending
          /\ step' = "map" /\ bytes' = [i \in 0..batch.size - 1 |-> Zero]
          /\ UNCHANGED <<outcome, host, polled, pending>>
    /\ UNCHANGED <<ownerVars, synced, commandVars, prepareVars, batch, gpuVars, published>>

MapStaging ==
    /\ step = "map" /\ Map(Owner)
    /\ \/ outcome' = "ok" /\ step' = "invalidate" /\ UNCHANGED localVars
       \/ outcome' # "ok" /\ Leave
    /\ UNCHANGED <<commandVars, prepareVars, batch, gpuVars, published>>

InvalidateStaging ==
    /\ step = "invalidate" /\ Synchronize(Owner, 0, WholeSize)
    /\ \/ outcome' = "ok" /\ step' = "copy" /\ host' = device
       \/ outcome' # "ok" /\ step' = "abandon" /\ UNCHANGED host
    /\ UNCHANGED <<commandVars, prepareVars, batch, gpuVars, polled, pending, bytes, published>>

\* Variant: the error of invalidate() is returned at once.
AbandonMapped ==
    /\ step = "abandon" /\ Leave
    /\ UNCHANGED <<resourceVars, commandVars, prepareVars, batch, gpuVars, published>>

AbandonStaging ==
    /\ step = "abandon" /\ Unmap(Owner) /\ step' = "report"
    /\ UNCHANGED <<commandVars, prepareVars, batch, gpuVars, localVars, published>>

ReportInvalidate ==
    /\ step = "report" /\ Returns("native") /\ Leave
    /\ UNCHANGED <<ownerVars, synced, commandVars, prepareVars, batch, gpuVars, published>>

\* i lies in a buffer range or in a row of an image.
Copied(i) ==
    \/ \E k \in DOMAIN batch.copies :
         LET c == batch.copies[k] IN i \in c.staging_offset..c.staging_offset + c.size - 1
    \/ \E k \in DOMAIN batch.images : \E row \in 0..batch.images[k].region.height - 1 :
         LET r == batch.images[k].region
             first == r.buffer_offset + row * RowTexels(r) * Texel
         IN  i \in first..first + r.width * Texel - 1

CopyOut ==
    /\ step = "copy"
    /\ bytes' = [i \in DOMAIN bytes |-> IF Copied(i) THEN host[i] ELSE bytes[i]]
    /\ step' = "unmap"
    /\ UNCHANGED <<resourceVars, commandVars, prepareVars, batch, gpuVars>>
    /\ UNCHANGED <<host, polled, pending, published>>

UnmapAndReturn ==
    /\ step = "unmap" /\ Unmap(Owner) /\ Leave
    /\ published' = IF outcome' = "ok" THEN bytes ELSE published
    /\ UNCHANGED <<commandVars, prepareVars, batch, gpuVars>>

-----------------------------------------------------------------------------
(* The application                                                         *)

\* "Destruction before all GPU uses finish violates the caller's contract."
ReleaseBatch ==
    /\ step = "idle" /\ batch # Null /\ ~InFlight
    /\ EndBuffer(Owner)
    /\ command' = Null /\ recorded' = <<>>
    /\ batch' = Null /\ uses' = <<>> /\ device' = <<>> /\ published' = Null
    /\ Returns("ok") /\ UNCHANGED <<step, prepareVars, localVars>>

\* Sources stay while commands that read them are recorded, and, which is a
\* bound of the model, from the first submission on.
SourceChanges ==
    /\ step = "idle" /\ recorded = <<>> /\ uses = <<>>
    /\ \/ \E b \in Sources, a \in Allocators, d \in BufferDescriptions : CreateBuffer(b, a, d)
       \/ \E b \in Sources : DestroyBuffer(b)
       \/ \E b, c \in Sources : MoveBuffer(b, c)
       \/ \E i \in Images, a \in Allocators, d \in ImageDescriptions : CreateImage(i, a, d)
       \/ \E i \in Images : DestroyImage(i)
       \/ \E i, j \in Images : MoveImage(i, j)
    /\ UNCHANGED <<commandVars, readbackVars>>

CommandChanges ==
    /\ step = "idle" /\ ~InFlight
    /\ BeginCommand \/ FinishCommand
    /\ UNCHANGED readbackVars

-----------------------------------------------------------------------------
Init ==
    /\ ResourcesInit /\ TransferInit
    /\ step = "idle" /\ allocator = Null /\ description = Null /\ batch = Null
    /\ uses = <<>> /\ device = <<>> /\ host = <<>>
    /\ polled = 0 /\ pending = FALSE /\ bytes = <<>> /\ published = Null

Prepare ==
    \/ PrepareRejected \/ PrepareBegins \/ PrepareBuffer \/ PrepareImage
    \/ CreateStaging \/ PrepareInspects

CopyCompleted ==
    \/ TryCopyRejected \/ TryCopy
    \/ \E n \in 1..MaxUses : PollAnswers(n)
    \/ PollFails \/ PolledAll \/ MapStaging \/ InvalidateStaging \/ CopyOut \/ UnmapAndReturn
    \/ AbandonStaging \/ ReportInvalidate

Gpu == (\E n \in 1..MaxUses : GpuStarts(n) \/ GpuCompletes(n)) \/ DeviceLost

Application == SubmitUse \/ ReleaseBatch \/ SourceChanges \/ CommandChanges

Next == Prepare \/ RecordReadback \/ RecordOwn \/ CopyCompleted \/ Gpu \/ Application

Spec == Init /\ [][Next]_vars

(* The GPU runs what was submitted; a call that began goes on to its end;   *)
(* the application tries again; and no driver or host call fails every      *)
(* time it is made.                                                         *)
Fairness ==
    /\ \A n \in 1..MaxUses : /\ WF_vars(GpuStarts(n)) /\ WF_vars(GpuCompletes(n))
                             /\ SF_vars(PollAnswers(n))
    /\ SF_vars(TryCopy)
    /\ WF_vars(PolledAll) /\ SF_vars(PolledAll /\ step' = "map")
    /\ WF_vars(MapStaging) /\ SF_vars(MapStaging /\ outcome' = "ok")
    /\ WF_vars(InvalidateStaging) /\ SF_vars(InvalidateStaging /\ outcome' = "ok")
    /\ WF_vars(CopyOut) /\ WF_vars(UnmapAndReturn)
    /\ WF_vars(AbandonStaging) /\ WF_vars(ReportInvalidate)

FairSpec == Spec /\ Fairness

-----------------------------------------------------------------------------
(* Properties                                                              *)

\* Where the items lie in the staging buffer, in order.
Spans ==
    [k \in DOMAIN batch.copies |-> Cells(batch.copies[k].staging_offset, batch.copies[k].size)] \o
    [k \in DOMAIN batch.images |->
        Cells(batch.images[k].region.buffer_offset, batch.images[k].payload)]

(* No two items share a byte of the staging buffer, all lie inside it, and  *)
(* texels start at a multiple of four although buffer ranges may have any   *)
(* size: the padding and the additions hold at the largest size too.        *)
PackedReadback ==
    batch # Null =>
        /\ \A j, k \in DOMAIN Spans : j # k => Spans[j] \cap Spans[k] = {}
        /\ \A k \in DOMAIN Spans : Spans[k] \subseteq 0..batch.size - 1
        /\ \A k \in DOMAIN batch.images : batch.images[k].region.buffer_offset % 4 = 0
        /\ Live(Staging) => Staging.config.size = batch.size

\* The implementation that owns the native object h.
BufferOf(h) == CHOOSE x \in {buffers[b] : b \in Buffers} : Live(x) /\ x.handle = h
ImageOf(h) == CHOOSE x \in {images[i] : i \in Images} : Live(x) /\ x.handle = h

InMip(image, r) ==
    Cells(r.x, r.width) \X Cells(r.y, r.height) \subseteq MipTexels(image.config, r.mip)

(* A recorded copy reads the native object its item named at prepare, which *)
(* still has the bytes or texels the item asked for, and writes the item's  *)
(* place in the staging buffer; and an image copy that the application      *)
(* records beside the batch stays inside both images.                       *)
RecordedReadsAreValid ==
    /\ \A c \in OfBatch :
        /\ c.dst = Staging.handle
        /\ IF c.item[1] = "buffer"
             THEN LET e == batch.copies[c.item[2]] IN
                  /\ c.src = e.expected
                  /\ c.region = [src_offset |-> e.source_offset, dst_offset |-> e.staging_offset,
                                 size |-> e.size]
                  /\ Cells(e.source_offset, e.size) \subseteq Cells(0, BufferOf(c.src).config.size)
             ELSE LET e == batch.images[c.item[2]] IN
                  /\ c.src = e.image /\ c.region = e.region /\ c.layout = e.layout
                  /\ InMip(ImageOf(c.src), e.region)
    /\ \A c \in OwnCopies :
        InMip(ImageOf(c.src), c.region.src) /\ InMip(ImageOf(c.dst), c.region.dst)

(* "Prevalidate the ENTIRE batch before any native vkCmdCopyBuffer2": a call *)
(* that returns an error has recorded nothing, although a source may have   *)
(* been made again, smaller, under the handle the batch knows.              *)
NeverPartial == [][recorded' \notin {recorded, <<>>} => outcome' = "ok"]_vars

(* Bytes are published only when the GPU has finished every use of the      *)
(* staging buffer, and they are exactly what the items name, byte by byte   *)
(* and texel by texel, with zeroes everywhere else: never an undefined      *)
(* byte of a running copy, of a lost device or of the space between rows.   *)
PublishesWhatTheGpuWrote ==
    step = "idle" /\ published # Null =>
        /\ DOMAIN published = 0..batch.size - 1
        /\ \A k \in DOMAIN batch.copies : \A j \in 0..batch.copies[k].size - 1 :
             LET c == batch.copies[k]
             IN  published[c.staging_offset + j] = <<"buffer", k, c.source_offset + j>>
        /\ \A k \in DOMAIN batch.images :
             LET r == batch.images[k].region IN
             \A x \in 0..r.width - 1, y \in 0..r.height - 1, b \in 0..Texel - 1 :
                published[r.buffer_offset + (y * RowTexels(r) + x) * Texel + b] =
                    <<"image", k, r.x + x, r.y + y, b>>
        /\ \A i \in DOMAIN published : published[i] # Zero => i \in Written

(* After any failures of polls, allocations, map() and invalidate(), the    *)
(* bytes of completed uses are published in the end, unless the device is   *)
(* lost or the application gives the batch up or mixes devices.             *)
GivenUp ==
    \/ batch = Null
    \/ \E n \in DOMAIN uses : uses[n].run = "lost" \/ uses[n].device # uses[1].device

RetrySucceeds == uses # <<>> ~> (published # Null \/ GivenUp)
=============================================================================

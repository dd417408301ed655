--------------------------- MODULE TransferCommands ---------------------------
(***************************************************************************)
(* graphics/transfer_commands.cpp: the copies that the upload and the      *)
(* readback batches record, the copies and barriers that the application   *)
(* records itself, and the geometry both batches compute for regions of    *)
(* RGBA8 images.                                                           *)
(*                                                                         *)
(* A region of an image is a record; "plain" stands for the parts of       *)
(* VkBufferImageCopy2 that are one constant for all legal regions: sType,  *)
(* pNext, the color aspect, one layer, and nothing along z.                *)
(***************************************************************************)
EXTENDS Resources, Integers, Sequences, FiniteSetsExt

CONSTANTS
    Synchronization2,   \* the devices that were created with synchronization2
    MaxRow          \* bytes of a row: the largest std::int32_t

Texel == 4          \* bytes of an RGBA8 texel

\* VkBufferImageCopy2 with one layer
Regions == [plain : BOOLEAN, buffer_offset : Nat, row_length : Nat, image_height : Nat,
            mip : Nat, layer : Nat, x : Int, y : Int, width : Nat, height : Nat]

\* createImage() admits an image of at most as many levels as an extent has bits.
ASSUME TransferAssumption ==
    /\ Synchronization2 \subseteq Devices
    /\ MaxRow \in Nat
    /\ \A d \in ImageDescriptions : d.refused = "none" =>
         /\ d.width \in Nat \ {0} /\ d.height \in Nat \ {0}
         /\ d.mip_levels \in 0..32 /\ d.array_layers \in Nat

VARIABLES
    command,        \* the CommandBuffer: Null, or its device, state and pool's protection
    recorded        \* the native commands of every recording call since begin

commandVars == <<command, recorded>>

\* within, containsRange: no sum that could overflow.
Within(total, offset, size) == size # 0 /\ offset <= total /\ size <= total - offset

Overlaps(a, a_size, b, b_size) == a < b + b_size /\ b < a + a_size

\* dimension >> bits: each bit halves, and rounds down.
Shifted(dimension, bits) ==
    LET shifted[n \in Nat] == IF n = 0 THEN dimension ELSE shifted[n - 1] \div 2
    IN  shifted[bits]

MipDimension(dimension, level) ==
    LET shifted == Shifted(dimension, IF level < 32 THEN level ELSE 31)
    IN  IF shifted # 0 THEN shifted ELSE 1

RowTexels(r) == IF r.row_length # 0 THEN r.row_length ELSE r.width

\* The region lies in its mip level, and its pitches hold its rows.
InsideMip(config, r) ==
    /\ r.mip < config.mip_levels /\ r.layer < config.array_layers
    /\ r.x >= 0 /\ r.y >= 0 /\ r.width # 0 /\ r.height # 0
    /\ r.row_length # 0 => r.row_length >= r.width
    /\ r.image_height # 0 => r.image_height >= r.height
    /\ r.x + r.width <= MipDimension(config.width, r.mip)
    /\ r.y + r.height <= MipDimension(config.height, r.mip)

\* validImageRegion of both batches
ValidImageRegion(config, r) ==
    /\ r.plain
    /\ r.buffer_offset % 4 = 0
    /\ RowTexels(r) * Texel <= MaxRow
    /\ InsideMip(config, r)

Overflow == MaxSize + 1     \* no footprint: std::nullopt

\* imageFootprint of upload_batch.cpp counts texels ...
UploadFootprint(r) ==
    LET rows == r.height - 1
        texels == rows * RowTexels(r) + r.width
    IN  IF \/ rows # 0 /\ RowTexels(r) > (MaxSize - r.width) \div rows
           \/ texels > MaxSize \div Texel
          THEN Overflow ELSE texels * Texel

\* ... that of readback_batch.cpp bytes.
ReadbackFootprint(r) ==
    LET rows == r.height - 1
        row_bytes == r.width * Texel
        pitch_bytes == RowTexels(r) * Texel
    IN  IF row_bytes > MaxSize \/ (rows # 0 /\ pitch_bytes > (MaxSize - row_bytes) \div rows)
          THEN Overflow ELSE rows * pitch_bytes + row_bytes

SameSubresource(a, b) ==
    a.image = b.image /\ a.region.mip = b.region.mip /\ a.region.layer = b.region.layer

\* Variant: a region that starts above or left of an earlier one is let through.
RegionsOverlapAfter(a, b) ==
    /\ SameSubresource(a, b)
    /\ b.region.x \in a.region.x..a.region.x + a.region.width - 1
    /\ b.region.y \in a.region.y..a.region.y + a.region.height - 1

RegionsOverlap(a, b) ==
    /\ SameSubresource(a, b)
    /\ Overlaps(a.region.x, a.region.width, b.region.x, b.region.width)
    /\ Overlaps(a.region.y, a.region.height, b.region.y, b.region.height)

-----------------------------------------------------------------------------
(* Recording                                                               *)

\* Entries are validated in order.
FirstError(errors) ==
    LET failed == {k \in DOMAIN errors : errors[k] # "none"}
    IN  IF failed = {} THEN "none" ELSE errors[Min(failed)]

\* validate(): device is Null when the wrapper was moved from.
RecordingError(device) ==
    IF device = Null THEN "invalid_device"
    ELSE IF command = Null THEN "invalid_command_buffer"
    ELSE IF command.device # device THEN "parent_mismatch"
    ELSE IF command.state # "recording" THEN "not_recording"
    ELSE "none"

\* recordCopyBuffer with one region
CopyBufferError(device, src, dst, r) ==
    IF RecordingError(device) # "none" THEN RecordingError(device)
    ELSE IF ~Live(src) \/ ~Live(dst) THEN "invalid_resource"
    ELSE IF "transfer_src" \notin src.config.usage \/ "transfer_dst" \notin dst.config.usage
      THEN "missing_usage"
    ELSE IF r.size = 0 THEN "invalid_region"
    ELSE IF \/ ~Within(src.config.size, r.src_offset, r.size)
            \/ ~Within(dst.config.size, r.dst_offset, r.size)
      THEN "out_of_bounds"
    ELSE "none"

\* recordCopyBufferToImage and recordCopyImageToBuffer, with one region.
CopyImageError(device, buffer, image, buffer_usage, image_usage, r) ==
    IF RecordingError(device) # "none" THEN RecordingError(device)
    ELSE IF ~Live(buffer) \/ ~Live(image) THEN "invalid_resource"
    ELSE IF DeviceOf[image.allocator] # device THEN "parent_mismatch"
    ELSE IF buffer_usage \notin buffer.config.usage \/ image_usage \notin image.config.usage
      THEN "missing_usage"
    ELSE IF ~r.plain \/ ~InsideMip(image.config, r) THEN "invalid_region"
    ELSE IF r.buffer_offset >= buffer.config.size THEN "out_of_bounds"
    ELSE "none"

\* recordBarriers: a barrier is "memory", "buffer" or "image"; nothing is asked
\* of the buffers and images themselves.
BarriersError(device, barriers) ==
    IF RecordingError(device) # "none" THEN RecordingError(device)
    ELSE IF device \notin Synchronization2 THEN "synchronization2_not_enabled"
    ELSE IF barriers = {} THEN "missing_regions"
    ELSE IF "malformed" \in barriers THEN "invalid_native_structure"
    ELSE "none"

\* recordCopyImage with one region, its box in each of the two images.
ImageCopyError(device, src, dst, r) ==
    IF RecordingError(device) # "none" THEN RecordingError(device)
    ELSE IF \/ ~Live(src) \/ ~Live(dst)
            \/ {DeviceOf[src.allocator], DeviceOf[dst.allocator]} # {device} THEN "invalid_resource"
    ELSE IF "transfer_src" \notin src.config.usage \/ "transfer_dst" \notin dst.config.usage
      THEN "missing_usage"
    ELSE IF ~InsideMip(src.config, r.src) \/ ~InsideMip(dst.config, r.dst) THEN "invalid_region"
    ELSE "none"

\* One recording call of the application: it records all of c, or nothing.
Records(error, c) ==
    \/ error = "none" /\ Returns("ok") /\ recorded' = Append(recorded, <<c>>)
    \/ error # "none" /\ Returns(error) /\ UNCHANGED recorded

RecordBarriers(device, barriers) ==
    Records(BarriersError(device, barriers), [barriers |-> barriers])

RecordCopyImage(device, src, dst, r) ==
    Records(ImageCopyError(device, src, dst, r),
            [src |-> src.handle, dst |-> dst.handle, region |-> r])

\* A loop of recording calls stops at the first error: what was recorded
\* before it stays recorded.
RecordAll(commands, errors) ==
    LET failed == {k \in DOMAIN errors : errors[k] # "none"}
    IN  IF failed = {}
          THEN Returns("ok") /\ recorded' = Append(recorded, commands)
          ELSE /\ Returns(errors[Min(failed)])
               /\ recorded' = Append(recorded, SubSeq(commands, 1, Min(failed) - 1))

-----------------------------------------------------------------------------
(* The caller's CommandBuffer                                              *)

BeginCommand ==
    /\ ~(command # Null /\ command.state = "recording")
    /\ \E device \in Devices, protected \in BOOLEAN :
         command' = [device |-> device, state |-> "recording", protected |-> protected]
    /\ recorded' = <<>>
    /\ Returns("ok") /\ UNCHANGED <<ownerVars, synced>>

\* The batch is submitted, completes, and its commands are discarded.
FinishCommand ==
    /\ command # Null
    /\ \/ command.state = "recording" /\ command' = [command EXCEPT !.state = "executable"]
          /\ UNCHANGED recorded
       \/ command.state = "executable" /\ command' = Null /\ recorded' = <<>>
    /\ Returns("ok") /\ UNCHANGED <<ownerVars, synced>>

TransferInit == command = Null /\ recorded = <<>>

-----------------------------------------------------------------------------
(* What the properties of the batches compare regions with                 *)

Cells(start, size) == start..start + size - 1

\* Vulkan's rule for a level: from the one before, max(1, floor(size / 2)).
LevelSize(dimension, level) ==
    LET size[n \in Nat] ==
            IF n = 0 THEN dimension ELSE IF size[n - 1] < 2 THEN 1 ELSE size[n - 1] \div 2
    IN  size[level]

MipTexels(config, level) ==
    Cells(0, LevelSize(config.width, level)) \X Cells(0, LevelSize(config.height, level))
=============================================================================

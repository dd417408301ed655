--------------------------- MODULE ReadbackProofs ---------------------------
(***************************************************************************)
(* Proofs about ReadbackBatch for any wrappers, handles, allocators,       *)
(* devices and descriptions, any number of items and of submissions, and   *)
(* any largest size.                                                       *)
(***************************************************************************)
EXTENDS ReadbackBatch, ResourcesProofs

(***************************************************************************)
(* The inductive invariant: which staging buffer there is at every step,   *)
(* where the entries of the batch lie in it, what its memory holds once    *)
(* all submissions have completed, how far tryCopy has come, and that what *)
(* was recorded stays readable.                                            *)
(***************************************************************************)

Preparing == {"items", "inspect"}
Mapped == {"invalidate", "copy", "unmap", "abandon"}
AllPolled == {"map", "report"} \cup Mapped
Calling == {"poll"} \cup AllPolled

CommandTypes == [device : Devices, state : {"recording", "executable"}, protected : BOOLEAN]
Submissions == [device : Devices, run : {"submitted", "running", "completed", "lost"}]

ReadbackTypeOK ==
    /\ step \in {"idle"} \cup Preparing \cup Calling
    /\ batch \in Batches \cup {Null}
    /\ command # Null => command \in CommandTypes
    /\ uses \in Seq(Submissions)
    /\ polled \in Nat /\ pending \in BOOLEAN
    /\ step \notin Calling => polled = 0
    /\ step = "items" => allocator \in Allocators /\ description \in Descriptions
    /\ step # "idle" => batch # Null
    /\ step \in Calling => uses # <<>>
    /\ batch = Null \/ step \in Preparing => uses = <<>> /\ recorded = <<>> /\ published = Null

StagingLives ==
    /\ Live(buffers[Local]) <=> step = "inspect"
    /\ Live(Staging) <=> batch # Null /\ step \notin Preparing
    /\ step = "inspect" => buffers[Local].config.size = batch.size /\ ~buffers[Local].mapping
    /\ Live(Staging) => Staging.config.size = batch.size
    /\ step \in Mapped => Staging.mapping
    /\ Live(Staging) /\ step \notin Mapped => ~Staging.mapping

\* What an entry of an image keeps of its region, and its size.
Shaped(u) ==
    /\ u.region.width # 0 /\ u.region.height # 0 /\ RowTexels(u.region) >= u.region.width
    /\ u.payload = (RowTexels(u.region) * (u.region.height - 1) + u.region.width) * Texel

\* The entries of b lie one after the other.
Laid(b) ==
    /\ \A k \in DOMAIN b.copies : b.copies[k].staging_offset + b.copies[k].size <= b.size
    /\ \A k \in DOMAIN b.images :
         /\ Shaped(b.images[k])
         /\ b.images[k].region.buffer_offset % 4 = 0
         /\ b.images[k].region.buffer_offset + b.images[k].payload <= b.size
    /\ \A j, k \in DOMAIN b.copies : j < k =>
         b.copies[j].staging_offset + b.copies[j].size <= b.copies[k].staging_offset
    /\ \A j \in DOMAIN b.copies, k \in DOMAIN b.images :
         b.copies[j].staging_offset + b.copies[j].size <= b.images[k].region.buffer_offset
    /\ \A j, k \in DOMAIN b.images : j < k =>
         b.images[j].region.buffer_offset + b.images[j].payload
           <= b.images[k].region.buffer_offset

Finished == uses # <<>> /\ \A n \in DOMAIN uses : uses[n].run = "completed"

\* v is what the GPU wrote for the items, and zero elsewhere.
ReadsBack(v) == v = [i \in 0..batch.size - 1 |-> IF Copied(i) THEN WrittenAt(i) ELSE Zero]

MemoryHolds ==
    /\ Live(Staging) => DOMAIN device = 0..batch.size - 1
    /\ Finished => \A i \in Written : device[i] = WrittenAt(i)

CallHolds ==
    /\ step = "poll" =>
         /\ polled <= Len(uses)
         /\ pending = FALSE => \A n \in 1..polled : uses[n].run = "completed"
    /\ step \in AllPolled => Finished
    /\ step = "copy" => host = device
    /\ step \in {"map", "invalidate", "copy"} => bytes = [i \in 0..batch.size - 1 |-> Zero]
    /\ step = "unmap" => ReadsBack(bytes)
    /\ published # Null => ReadsBack(published)

\* What every recorded command of the batch reads.
Readable ==
    /\ \A k \in DOMAIN batch.copies :
         LET c == batch.copies[k] IN
         /\ Live(Buffer(c.source)) /\ Buffer(c.source).handle = c.expected
         /\ Within(Buffer(c.source).config.size, c.source_offset, c.size)
    /\ \A k \in DOMAIN batch.images :
         LET u == batch.images[k] IN
         /\ Live(Image(u.source)) /\ Image(u.source).handle = u.image
         /\ InsideMip(Image(u.source).config, u.region)

OwnCopy(i, j, r) == [src |-> images[i].handle, dst |-> images[j].handle, region |-> r]

\* One recording call left these commands.
Recorded(commands) ==
    \/ Readable /\ commands = BufferCommands \o ImageCommands
    \/ \E barriers \in Barriers : commands = <<[barriers |-> barriers]>>
    \/ \E i, j \in Images, r \in ImageCopies :
         /\ Live(images[i]) /\ InsideMip(images[i].config, r.src)
         /\ Live(images[j]) /\ InsideMip(images[j].config, r.dst)
         /\ commands = <<OwnCopy(i, j, r)>>

Recording ==
    /\ recorded \in Seq(Range(recorded))
    /\ \A n \in DOMAIN recorded : Recorded(recorded[n])

\* prepare goes through the images after the buffers.
BuffersFirst ==
    step = "items" /\ batch.images # <<>> => Len(batch.copies) = Len(description.buffers)

ReadbackInv ==
    /\ OwnersInv /\ Accepted
    /\ ReadbackTypeOK /\ StagingLives /\ BuffersFirst
    /\ batch # Null => Laid(batch)
    /\ MemoryHolds /\ CallHolds /\ Recording

-----------------------------------------------------------------------------
(* Owners                                                                  *)

(* The description of the staging buffer is one that createBuffer() takes.  *)
LEMMA StagingIsDescribed ==
    ASSUME ReadbackInv, step = "items"
    PROVE  /\ StagingDescription \in BufferConfigs /\ StagingDescription.size = batch.size
           /\ allocator \in Allocators /\ description \in Descriptions
           /\ batch # Null /\ batch.size \in Sizes
<1>1. /\ allocator \in Allocators /\ description \in Descriptions /\ batch # Null
      /\ batch \in Batches
  BY DEF ReadbackInv, ReadbackTypeOK
<1>2. description.staging \in BufferConfigs /\ batch.size \in Sizes
  BY <1>1, ReadbackAssumption DEF Batches
<1> QED BY <1>1, <1>2 DEF StagingDescription, BufferConfigs, Usages

LEMMA ReadbackOwnersKeep ==
    ASSUME ReadbackInv, [Next]_vars
    PROVE  OwnersInv' /\ Accepted'
<1> USE DEF ReadbackInv
<1>1. CASE UNCHANGED ownerVars
  BY <1>1, OwnersUntouched DEF ownerVars, Accepted, Live
<1>2. CASE CreateStaging /\ ~UNCHANGED ownerVars
  <2>1. CreateBuffer(Local, allocator, StagingDescription) /\ step = "items"
    BY <1>2 DEF CreateStaging, CreateBufferRejected, CreateBufferFails
  <2>2. StagingDescription \in BufferConfigs /\ allocator \in Allocators /\ Local \in Buffers
    BY <2>1, StagingIsDescribed, ReadbackAssumption
  <2>3. OwnersInv'
    BY <2>1, <2>2, CreateBufferKeeps
  <2>4. images' = images
    BY <2>1 DEF CreateBuffer
  <2> QED BY <2>3, <2>4 DEF Accepted, Live
<1>3. CASE Map(Owner) \/ Unmap(Owner)
  <2>1. OwnersInv' /\ images' = images
    BY <1>3, MapKeeps, ReadbackAssumption DEF Map, Unmap, ownerVars
  <2> QED BY <2>1 DEF Accepted, Live
<1>4. CASE MoveBuffer(Owner, Local)
  <2>1. OwnersInv' /\ images' = images
    BY <1>4, BufferDisplaced, ReadbackAssumption DEF MoveBuffer
  <2> QED BY <2>1 DEF Accepted, Live
<1>5. CASE EndBuffer(Local) \/ EndBuffer(Owner)
  <2>1. OwnersInv' /\ images' = images
    BY <1>5, BufferDisplaced, ReadbackAssumption DEF EndBuffer
  <2> QED BY <2>1 DEF Accepted, Live
<1>6. CASE SourceChanges
  <2>1. ResourcesNext
    BY <1>6 DEF SourceChanges, ResourcesNext, BufferCalls, ImageCalls, Sources
  <2> QED BY <2>1, ResourcesKeep, ImagesAccepted
<1>7. CASE Prepare
  BY <1>1, <1>2, <1>4, <1>5, <1>7
  DEF Prepare, PrepareRejected, PrepareBegins, PrepareBuffer, PrepareImage, PrepareInspects,
      PrepareAccepts, resourceVars, ownerVars
<1>8. CASE RecordReadback \/ RecordOwn
  BY <1>1, <1>8 DEF RecordReadback, RecordOwn
<1>9. CASE CopyCompleted
  BY <1>1, <1>3, <1>9
  DEF CopyCompleted, TryCopyRejected, TryCopy, PollAnswers, PollFails, PolledAll, MapStaging,
      InvalidateStaging, Synchronize, CopyOut, UnmapAndReturn, AbandonStaging, ReportInvalidate,
      resourceVars, ownerVars
<1>10. CASE Gpu
  BY <1>1, <1>10 DEF Gpu, GpuStarts, GpuCompletes, DeviceLost, resourceVars, ownerVars
<1>11. CASE Application
  BY <1>1, <1>5, <1>6, <1>11
  DEF Application, SubmitUse, ReleaseBatch, CommandChanges, BeginCommand, FinishCommand
<1>12. CASE UNCHANGED vars
  BY <1>1, <1>12 DEF vars, resourceVars, ownerVars
<1> QED BY <1>7, <1>8, <1>9, <1>10, <1>11, <1>12 DEF Next

-----------------------------------------------------------------------------
(* What carries over                                                       *)

(* What the GPU writes, and where, follows from the batch.                  *)
LEMMA BatchStays ==
    ASSUME batch' = batch
    PROVE  /\ \A i : WrittenAt(i)' = WrittenAt(i)
           /\ \A i : Copied(i)' = Copied(i)
           /\ \A v : ReadsBack(v)' = ReadsBack(v)
           /\ DOMAIN device' = DOMAIN device => Written' = Written
<1>1. \A i : WrittenAt(i)' = WrittenAt(i)
  BY DEF WrittenAt
<1>2. \A i : Copied(i)' = Copied(i)
  BY DEF Copied
<1>3. \A v : ReadsBack(v)' = ReadsBack(v)
  BY <1>1, <1>2 DEF ReadsBack
<1>4. DOMAIN device' = DOMAIN device => Written' = Written
  BY <1>1 DEF Written
<1> QED BY <1>1, <1>2, <1>3, <1>4

(* The same object with the same description, mapped or not.                *)
Same(x, y) == x = y \/ (Live(x) /\ Live(y) /\ x.handle = y.handle /\ x.config = y.config)

LEMMA NothingRecorded == recorded' = <<>> => Recording'
BY DEF Recording

(* Recorded commands stay what they are, and readable, as long as the batch *)
(* and the objects behind the wrappers do.                                  *)
LEMMA RecordingStays ==
    ASSUME ReadbackInv, batch' = batch, images' = images,
           \A b \in Buffers : Same(buffers[b], buffers'[b]),
           recorded' = recorded \/ recorded' = <<>>
    PROVE  Recording'
<1>1. SUFFICES ASSUME recorded' = recorded, recorded # <<>> PROVE Recording'
  BY NothingRecorded
<1>2. batch \in Batches
  BY <1>1 DEF ReadbackInv, ReadbackTypeOK
<1>3. \A k \in DOMAIN batch.copies : batch.copies[k].source \in Buffers \cup {Null}
  <2> TAKE k \in DOMAIN batch.copies
  <2>1. batch.copies[k] \in PreparedBufferReadbacks
    BY <1>2 DEF Batches
  <2> QED BY <2>1 DEF PreparedBufferReadbacks
<1>4. Staging'.handle = Staging.handle
  BY ReadbackAssumption DEF Staging, Same
<1>5. \A b \in Buffers \cup {Null} : Same(Buffer(b), Buffer(b)')
  BY DEF Buffer, Same
<1>6. \A k \in DOMAIN batch.copies :
        Same(Buffer(batch.copies[k].source), Buffer(batch.copies[k].source)')
  BY <1>3, <1>5
<1>7. \A i : Image(i)' = Image(i)
  BY DEF Image
<1>8. BufferCommands' = BufferCommands
  BY <1>4, <1>6 DEF BufferCommands, Same
<1>9. ImageCommands' = ImageCommands
  BY <1>4, <1>7 DEF ImageCommands
<1>10. Readable => Readable'
  BY <1>6, <1>7 DEF Readable, Same, Live
<1>11. \A i, j \in Images, r \in ImageCopies : OwnCopy(i, j, r)' = OwnCopy(i, j, r)
  BY DEF OwnCopy
<1>12. \A commands : Recorded(commands) => Recorded(commands)'
  BY <1>8, <1>9, <1>10, <1>11 DEF Recorded, Live
<1>13. Recording
  BY DEF ReadbackInv
<1> QED BY <1>1, <1>12, <1>13 DEF Recording

(* There is no batch any more.                                              *)
LEMMA Dropped ==
    ASSUME OwnersInv', Accepted', step' = "idle", batch' = Null, recorded' = <<>>,
           uses' = <<>>, published' = Null, polled' = 0, pending' \in BOOLEAN,
           command' = Null \/ command' \in CommandTypes,
           ~Live(buffers[Local])', ~Live(Staging)'
    PROVE  ReadbackInv'
<1>1. ReadbackTypeOK'
  BY DEF ReadbackTypeOK, Preparing, Calling, AllPolled, Mapped
<1>2. StagingLives'
  BY DEF StagingLives, Preparing, Mapped
<1>3. MemoryHolds' /\ CallHolds' /\ BuffersFirst'
  BY DEF MemoryHolds, CallHolds, Finished, AllPolled, Mapped, BuffersFirst
<1> QED BY <1>1, <1>2, <1>3, NothingRecorded DEF ReadbackInv

(* Neither the batch nor a call on it goes on.                              *)
LEMMA Elsewhere ==
    ASSUME ReadbackInv, OwnersInv', Accepted', Recording', UNCHANGED readbackVars,
           \/ recorded' = recorded \/ recorded' = <<>>
           \/ batch # Null /\ step = "idle",
           command' = Null \/ command' \in CommandTypes,
           buffers'[Local] = buffers[Local], buffers'[Owner] = buffers[Owner]
    PROVE  ReadbackInv'
<1> USE DEF ReadbackInv, readbackVars, prepareVars, gpuVars, callVars
<1>1. Staging' = Staging
  BY DEF Staging
<1>2. ReadbackTypeOK'
  BY DEF ReadbackTypeOK, Preparing
<1>3. StagingLives'
  BY <1>1 DEF StagingLives, Live
<1>4. (batch' # Null => Laid(batch')) /\ BuffersFirst'
  BY DEF BuffersFirst
<1>5. MemoryHolds'
  BY <1>1, BatchStays DEF MemoryHolds, Finished, Live
<1>6. CallHolds'
  BY BatchStays DEF CallHolds, Finished
<1> QED BY <1>2, <1>3, <1>4, <1>5, <1>6

(* A step of the GPU or of tryCopy on the batch that there is.              *)
LEMMA OnTheBatch ==
    ASSUME ReadbackInv, OwnersInv', Accepted', batch' = batch, images' = images,
           UNCHANGED commandVars, \A b \in Buffers : Same(buffers[b], buffers'[b]),
           step' # "items", ReadbackTypeOK', StagingLives', MemoryHolds', CallHolds'
    PROVE  ReadbackInv'
<1>1. Recording'
  BY RecordingStays DEF commandVars
<1> QED BY <1>1 DEF ReadbackInv, Laid, BuffersFirst

-----------------------------------------------------------------------------
(* The entries                                                             *)

(* The entries of a batch, of which the others are facts about numbers.     *)
LEMMA EntriesAre ==
    ASSUME NEW b \in Batches
    PROVE  /\ b.copies \in Seq(PreparedBufferReadbacks) /\ Len(b.copies) \in Nat
           /\ DOMAIN b.copies = 1..Len(b.copies)
           /\ b.images \in Seq(PreparedImageReadbacks) /\ Len(b.images) \in Nat
           /\ DOMAIN b.images = 1..Len(b.images)
           /\ b.size \in Nat /\ b.size <= MaxSize /\ MaxSize \in Nat
           /\ \A k \in DOMAIN b.copies :
                /\ b.copies[k].staging_offset \in Nat /\ b.copies[k].size \in Nat
                /\ b.copies[k].source_offset \in Nat
                /\ b.copies[k].source \in Buffers \cup {Null}
           /\ \A k \in DOMAIN b.images :
                /\ b.images[k].region \in Regions /\ b.images[k].payload \in Nat
                /\ b.images[k].region.buffer_offset \in Nat
                /\ b.images[k].source \in Images \cup {Null}
<1>1. /\ b.copies \in Seq(PreparedBufferReadbacks) /\ b.images \in Seq(PreparedImageReadbacks)
      /\ b.size \in Nat /\ b.size <= MaxSize /\ MaxSize \in Nat
  BY ResourcesAssumption DEF Batches, Sizes
<1>2. ASSUME NEW k \in DOMAIN b.copies
      PROVE  /\ b.copies[k].staging_offset \in Nat /\ b.copies[k].size \in Nat
             /\ b.copies[k].source_offset \in Nat
             /\ b.copies[k].source \in Buffers \cup {Null}
  <2>1. b.copies[k] \in PreparedBufferReadbacks
    BY <1>1
  <2> QED BY <2>1 DEF PreparedBufferReadbacks
<1>3. ASSUME NEW k \in DOMAIN b.images
      PROVE  /\ b.images[k].region \in Regions /\ b.images[k].payload \in Nat
             /\ b.images[k].region.buffer_offset \in Nat
             /\ b.images[k].source \in Images \cup {Null}
  <2>1. b.images[k] \in PreparedImageReadbacks
    BY <1>1
  <2>2. b.images[k].region \in Regions
    BY <2>1 DEF PreparedImageReadbacks
  <2> QED BY <2>1, <2>2 DEF PreparedImageReadbacks, Regions
<1> QED BY <1>1, <1>2, <1>3

WithCopy(b, c) ==
    [copies |-> Append(b.copies, c), images |-> b.images, size |-> b.size + c.size]

WithImage(b, u) ==
    [copies |-> b.copies, images |-> Append(b.images, u),
     size |-> u.region.buffer_offset + u.payload]

(* What ends before b ends before whatever follows b.                       *)
LEMMA EndsBefore ==
    ASSUME NEW a \in Nat, NEW size \in Nat, NEW b \in Nat, a + size <= b,
           NEW c \in Nat, b <= c, NEW more \in Nat
    PROVE  a + size <= c /\ a + size <= c + more
OBVIOUS

(* A range of a buffer follows the ranges before it.                        *)
LEMMA CopyLaid ==
    ASSUME NEW b \in Batches, Laid(b), b.images = <<>>,
           NEW c \in PreparedBufferReadbacks, c.staging_offset = b.size,
           c.size <= MaxSize - b.size
    PROVE  WithCopy(b, c) \in Batches /\ Laid(WithCopy(b, c))
<1> DEFINE n == Len(b.copies)
           after == WithCopy(b, c)
           more == Append(b.copies, c)
<1>1. /\ b.copies \in Seq(PreparedBufferReadbacks) /\ n \in Nat /\ DOMAIN b.copies = 1..n
      /\ b.size \in Nat /\ b.size <= MaxSize /\ MaxSize \in Nat
      /\ \A k \in 1..n : b.copies[k].staging_offset \in Nat /\ b.copies[k].size \in Nat
  BY EntriesAre
<1>2. /\ more \in Seq(PreparedBufferReadbacks) /\ DOMAIN more = 1..n + 1
      /\ \A k \in 1..n : more[k] = b.copies[k]
      /\ more[n + 1] = c
  BY <1>1
<1>3. c.size \in Nat /\ c.staging_offset \in Nat
  BY DEF PreparedBufferReadbacks
<1>4. after = [copies |-> more, images |-> <<>>, size |-> b.size + c.size]
  BY DEF WithCopy
<1>5. after.copies = more /\ after.images = <<>> /\ after.size = b.size + c.size
  BY DEF WithCopy
<1> HIDE DEF more, n, after
<1>6. after \in Batches
  <2>1. b.size + c.size \in Sizes
    BY <1>1, <1>3 DEF Sizes
  <2> QED BY <1>2, <1>4, <2>1 DEF Batches
<1>7. \A k \in 1..n + 1 : k \in 1..n \/ k = n + 1
  BY <1>1 DEF n
<1>8. /\ \A k \in 1..n : more[k].staging_offset + more[k].size <= b.size
      /\ \A j, k \in 1..n : j < k =>
           more[j].staging_offset + more[j].size <= more[k].staging_offset
      /\ more[n + 1].staging_offset = b.size /\ more[n + 1].size = c.size
  BY <1>1, <1>2 DEF Laid
<1>9. \A k \in 1..n + 1 : more[k].staging_offset + more[k].size <= b.size + c.size
  <2> TAKE k \in 1..n + 1
  <2>1. CASE k \in 1..n
    <3>1. /\ more[k].staging_offset \in Nat /\ more[k].size \in Nat
          /\ more[k].staging_offset + more[k].size <= b.size
      BY <1>1, <1>2, <1>8, <2>1
    <3> QED BY <1>1, <1>3, <3>1
  <2>2. CASE k = n + 1
    <3>1. more[k].staging_offset = b.size /\ more[k].size = c.size
      BY <1>8, <2>2
    <3> QED BY <1>1, <1>3, <3>1
  <2> QED BY <1>7, <2>1, <2>2
<1>10. \A j, k \in 1..n + 1 : j < k =>
         more[j].staging_offset + more[j].size <= more[k].staging_offset
  <2> SUFFICES ASSUME NEW j \in 1..n + 1, NEW k \in 1..n + 1, j < k
               PROVE  more[j].staging_offset + more[j].size <= more[k].staging_offset
    OBVIOUS
  <2>1. j \in 1..n
    BY <1>1, <1>7
  <2> QED BY <1>7, <1>8, <2>1
<1>11. Laid(after)
  BY <1>2, <1>5, <1>9, <1>10 DEF Laid
<1> QED BY <1>6, <1>11 DEF after

(* A region of an image follows the ranges and the regions before it.       *)
LEMMA ImageLaid ==
    ASSUME NEW b \in Batches, Laid(b), NEW u \in PreparedImageReadbacks, Shaped(u),
           u.region.buffer_offset % 4 = 0, u.region.buffer_offset >= b.size,
           u.region.buffer_offset + u.payload <= MaxSize
    PROVE  WithImage(b, u) \in Batches /\ Laid(WithImage(b, u))
<1> DEFINE n == Len(b.images)
           after == WithImage(b, u)
           more == Append(b.images, u)
           place == u.region.buffer_offset
<1>1. /\ b.images \in Seq(PreparedImageReadbacks) /\ n \in Nat /\ DOMAIN b.images = 1..n
      /\ b.size \in Nat /\ b.size <= MaxSize /\ MaxSize \in Nat
      /\ \A k \in 1..n : b.images[k].region.buffer_offset \in Nat /\ b.images[k].payload \in Nat
      /\ \A k \in DOMAIN b.copies :
           b.copies[k].staging_offset \in Nat /\ b.copies[k].size \in Nat
  BY EntriesAre
<1>2. /\ more \in Seq(PreparedImageReadbacks) /\ DOMAIN more = 1..n + 1
      /\ \A k \in 1..n : more[k] = b.images[k]
      /\ more[n + 1] = u
  BY <1>1
<1>3. place \in Nat /\ u.payload \in Nat
  BY DEF PreparedImageReadbacks, Regions
<1>4. after = [copies |-> b.copies, images |-> more, size |-> place + u.payload]
  BY DEF WithImage
<1>5. after.copies = b.copies /\ after.images = more /\ after.size = place + u.payload
  BY DEF WithImage
<1> HIDE DEF more, n, place, after
<1>6. after \in Batches
  <2>1. place + u.payload \in Sizes
    BY <1>1, <1>3 DEF Sizes, place
  <2>2. b.copies \in Seq(PreparedBufferReadbacks)
    BY EntriesAre
  <2> HIDE DEF place
  <2> QED BY <1>2, <1>4, <2>1, <2>2 DEF Batches
<1>7. \A k \in 1..n + 1 : k \in 1..n \/ k = n + 1
  BY <1>1 DEF n
<1>8. /\ \A k \in 1..n : /\ Shaped(more[k]) /\ more[k].region.buffer_offset % 4 = 0
                         /\ more[k].region.buffer_offset + more[k].payload <= b.size
      /\ \A j, k \in 1..n : j < k =>
           more[j].region.buffer_offset + more[j].payload <= more[k].region.buffer_offset
      /\ \A j \in DOMAIN b.copies, k \in 1..n :
           b.copies[j].staging_offset + b.copies[j].size <= more[k].region.buffer_offset
      /\ \A k \in DOMAIN b.copies : b.copies[k].staging_offset + b.copies[k].size <= b.size
      /\ \A j, k \in DOMAIN b.copies : j < k =>
           b.copies[j].staging_offset + b.copies[j].size <= b.copies[k].staging_offset
  BY <1>1, <1>2 DEF Laid
<1>9. /\ more[n + 1].region.buffer_offset = place /\ more[n + 1].payload = u.payload
      /\ Shaped(more[n + 1]) /\ place % 4 = 0 /\ place >= b.size
  BY <1>2 DEF place
<1>10. \A k \in 1..n + 1 : /\ Shaped(more[k]) /\ more[k].region.buffer_offset % 4 = 0
                           /\ more[k].region.buffer_offset + more[k].payload <= place + u.payload
  <2> TAKE k \in 1..n + 1
  <2>1. CASE k \in 1..n
    <3>1. /\ Shaped(more[k]) /\ more[k].region.buffer_offset % 4 = 0
          /\ more[k].region.buffer_offset + more[k].payload <= b.size
      BY <1>8, <2>1
    <3>2. more[k].region.buffer_offset \in Nat /\ more[k].payload \in Nat
      BY <1>1, <1>2, <2>1
    <3>3. b.size \in Nat /\ place \in Nat /\ b.size <= place /\ u.payload \in Nat
      BY <1>1, <1>3, <1>9
    <3>4. more[k].region.buffer_offset + more[k].payload <= place + u.payload
      BY <3>1, <3>2, <3>3, EndsBefore
    <3> QED BY <3>1, <3>4
  <2>2. CASE k = n + 1
    <3>1. more[k].region.buffer_offset + more[k].payload <= place + u.payload
      BY <1>3, <1>9, <2>2
    <3> QED BY <1>9, <2>2, <3>1
  <2> QED BY <1>7, <2>1, <2>2
<1>11. \A j, k \in 1..n + 1 : j < k =>
         more[j].region.buffer_offset + more[j].payload <= more[k].region.buffer_offset
  <2> SUFFICES ASSUME NEW j \in 1..n + 1, NEW k \in 1..n + 1, j < k
               PROVE  more[j].region.buffer_offset + more[j].payload
                        <= more[k].region.buffer_offset
    OBVIOUS
  <2>1. j \in 1..n
    BY <1>1, <1>7
  <2>2. more[j].region.buffer_offset + more[j].payload <= b.size
    BY <1>8, <2>1
  <2>3. CASE k \in 1..n
    BY <1>8, <2>1, <2>3
  <2>4. CASE k = n + 1
    <3>1. more[j].region.buffer_offset \in Nat /\ more[j].payload \in Nat
      BY <1>1, <1>2, <2>1
    <3>2. more[k].region.buffer_offset = place
      BY <1>9, <2>4
    <3>3. place \in Nat /\ b.size \in Nat /\ place >= b.size
      BY <1>1, <1>3, <1>9
    <3> QED BY <2>2, <3>1, <3>2, <3>3
  <2> QED BY <1>7, <2>3, <2>4
<1>12. \A j \in DOMAIN b.copies, k \in 1..n + 1 :
         b.copies[j].staging_offset + b.copies[j].size <= more[k].region.buffer_offset
  <2> TAKE j \in DOMAIN b.copies, k \in 1..n + 1
  <2>1. CASE k \in 1..n
    BY <1>8, <2>1
  <2>2. CASE k = n + 1
    <3>1. /\ b.copies[j].staging_offset \in Nat /\ b.copies[j].size \in Nat
          /\ b.copies[j].staging_offset + b.copies[j].size <= b.size
      BY <1>1, <1>8
    <3>2. b.size \in Nat /\ place \in Nat /\ b.size <= place
      BY <1>1, <1>3, <1>9
    <3>3. b.copies[j].staging_offset + b.copies[j].size <= place
      BY <3>1, <3>2, EndsBefore
    <3> QED BY <1>9, <2>2, <3>3
  <2> QED BY <1>7, <2>1, <2>2
<1>13. \A k \in DOMAIN b.copies :
         b.copies[k].staging_offset + b.copies[k].size <= place + u.payload
  <2> TAKE k \in DOMAIN b.copies
  <2>1. /\ b.copies[k].staging_offset \in Nat /\ b.copies[k].size \in Nat
        /\ b.copies[k].staging_offset + b.copies[k].size <= b.size
    BY <1>1, <1>8
  <2>2. b.size \in Nat /\ place \in Nat /\ b.size <= place /\ u.payload \in Nat
    BY <1>1, <1>3, <1>9
  <2> QED BY <2>1, <2>2, EndsBefore
<1>14. Laid(after)
  BY <1>2, <1>5, <1>8, <1>10, <1>11, <1>12, <1>13 DEF Laid
<1> QED BY <1>6, <1>14 DEF after

(* prepare goes on with the next item.                                      *)
LEMMA Filling ==
    ASSUME ReadbackInv, OwnersInv', Accepted', step = "items" \/ (step = "idle" /\ batch = Null),
           UNCHANGED <<buffers, commandVars, gpuVars, callVars>>,
           step' = "items", batch' \in Batches, Laid(batch'), BuffersFirst',
           allocator' \in Allocators, description' \in Descriptions
    PROVE  ReadbackInv'
<1> USE DEF ReadbackInv, commandVars, gpuVars, callVars
<1>1. /\ uses = <<>> /\ recorded = <<>> /\ published = Null /\ polled = 0
      /\ ~Live(buffers[Local]) /\ ~Live(Staging) /\ Staging' = Staging /\ batch' # Null
  BY ReadbackAssumption
  DEF ReadbackTypeOK, StagingLives, Preparing, Calling, AllPolled, Mapped, Staging
<1>2. ReadbackTypeOK'
  BY <1>1 DEF ReadbackTypeOK, Preparing, Calling, AllPolled, Mapped
<1>3. StagingLives'
  BY <1>1 DEF StagingLives, Live, Preparing, Mapped
<1>4. MemoryHolds' /\ CallHolds'
  BY <1>1 DEF MemoryHolds, CallHolds, Finished, AllPolled, Mapped, Live
<1> QED BY <1>1, <1>2, <1>3, <1>4, NothingRecorded

(* The footprint is the bytes from the first texel of a region to its last. *)
LEMMA ReadbackFootprintIs ==
    ASSUME NEW r \in Regions, r.height # 0, ReadbackFootprint(r) # Overflow
    PROVE  /\ ReadbackFootprint(r) = (RowTexels(r) * (r.height - 1) + r.width) * Texel
           /\ ReadbackFootprint(r) \in Nat
<1> DEFINE rows == r.height - 1
           pitch == RowTexels(r)
           width == r.width
<1>1. rows \in Nat /\ pitch \in Nat /\ width \in Nat
  BY DEF Regions, RowTexels
<1>2. ReadbackFootprint(r) = rows * (pitch * 4) + width * 4
  BY DEF ReadbackFootprint, Texel
<1> HIDE DEF rows, pitch, width
<1>3. rows * (pitch * 4) = (pitch * rows) * 4 /\ pitch * rows \in Nat
  BY <1>1
<1>4. (pitch * rows) * 4 + width * 4 = (pitch * rows + width) * 4
  <2> DEFINE product == pitch * rows
  <2>1. product \in Nat
    BY <1>3
  <2> HIDE DEF product
  <2>2. product * 4 + width * 4 = (product + width) * 4
    BY <1>1, <2>1
  <2> QED BY <2>2 DEF product
<1>5. (pitch * rows + width) * 4 \in Nat
  BY <1>1, <1>3
<1> QED BY <1>2, <1>3, <1>4, <1>5 DEF rows, pitch, width, Texel

LEMMA PaddingAligns ==
    ASSUME NEW size \in Nat
    PROVE  Padding(size) \in Nat /\ (size + Padding(size)) % 4 = 0
BY DEF Padding

-----------------------------------------------------------------------------
(* prepareReadbackBatch                                                    *)

LEMMA PrepareBeginsKeeps ==
    ASSUME ReadbackInv, OwnersInv', Accepted', PrepareBegins
    PROVE  ReadbackInv'
<1>1. /\ step = "idle" /\ batch = Null /\ step' = "items"
      /\ allocator' \in Allocators /\ description' \in Descriptions
      /\ UNCHANGED <<buffers, commandVars, gpuVars, callVars>>
      /\ batch' = [copies |-> <<>>, images |-> <<>>, size |-> 0]
  BY DEF PrepareBegins, resourceVars
<1>2. batch' \in Batches
  <2>1. /\ 0 \in Sizes /\ <<>> \in Seq(PreparedBufferReadbacks)
        /\ <<>> \in Seq(PreparedImageReadbacks)
    BY ResourcesAssumption DEF Sizes
  <2> QED BY <1>1, <2>1 DEF Batches
<1>3. batch'.copies = <<>> /\ batch'.images = <<>>
  BY <1>1
<1>4. Laid(batch') /\ BuffersFirst'
  BY <1>3 DEF Laid, BuffersFirst
<1> QED BY <1>1, <1>2, <1>4, Filling

(* prepare returns an error, and has no staging buffer.                     *)
LEMMA Refused ==
    ASSUME ReadbackInv, OwnersInv', Accepted', step = "items", NEW error, Refuse(error),
           UNCHANGED <<buffers, commandVars, gpuVars, callVars>>
    PROVE  ReadbackInv'
<1>1. /\ uses = <<>> /\ recorded = <<>> /\ published = Null /\ polled = 0 /\ pending \in BOOLEAN
      /\ command # Null => command \in CommandTypes
      /\ ~Live(buffers[Local]) /\ ~Live(Staging)
  BY DEF ReadbackInv, ReadbackTypeOK, StagingLives, Preparing, Calling, AllPolled, Mapped
<1>2. ~Live(buffers[Local])' /\ ~Live(Staging)'
  BY <1>1 DEF Live, Staging
<1> QED BY <1>1, <1>2, Dropped DEF Refuse, commandVars, gpuVars, callVars

LEMMA PrepareBufferKeeps ==
    ASSUME ReadbackInv, OwnersInv', Accepted', PrepareBuffer
    PROVE  ReadbackInv'
<1> DEFINE r == description.buffers[Len(batch.copies) + 1]
           c == [source |-> r.source, expected |-> Buffer(r.source).handle,
                 source_offset |-> r.offset, staging_offset |-> batch.size, size |-> r.size]
<1>1. /\ step = "items" /\ Len(batch.copies) < Len(description.buffers)
      /\ UNCHANGED <<buffers, commandVars, gpuVars, callVars>>
  BY DEF PrepareBuffer, ownerVars
<1>2. CASE BufferItemError(r) # "none"
  <2>1. Refuse(BufferItemError(r))
    BY <1>2 DEF PrepareBuffer
  <2> QED BY <1>1, <2>1, Refused
<1>3. CASE BufferItemError(r) = "none"
  <2>1. /\ batch' = [batch EXCEPT !.copies = Append(@, c), !.size = @ + r.size]
        /\ UNCHANGED <<step, prepareVars>>
    BY <1>3 DEF PrepareBuffer
  <2>2. /\ batch \in Batches /\ Laid(batch) /\ description \in Descriptions
        /\ allocator \in Allocators
    BY <1>1, StagingIsDescribed DEF ReadbackInv, ReadbackTypeOK
  <2>3. r \in BufferReadbackItems
    <3>1. description.buffers \in Seq(BufferReadbackItems)
      BY <2>2, ReadbackAssumption
    <3>2. Len(batch.copies) \in Nat
      BY <2>2, EntriesAre
    <3> QED BY <1>1, <3>1, <3>2
  <2>4. /\ r.source \in Buffers \cup {Null} /\ r.offset \in Nat /\ r.size \in Nat
    BY <2>3 DEF BufferReadbackItems
  <2>5. Live(Buffer(r.source)) /\ ~(r.size > MaxSize - batch.size)
    BY <1>3 DEF BufferItemError
  <2>6. Buffer(r.source).handle \in Handles
    <3>1. r.source \in Buffers /\ Buffer(r.source) = buffers[r.source]
      BY <2>4, <2>5 DEF Buffer, Live
    <3> QED BY <2>5, <3>1, BufferStands DEF BufferImpls, ReadbackInv
  <2>7. /\ batch.size \in Nat /\ MaxSize \in Nat
    BY <2>2, EntriesAre
  <2>8. batch.images = <<>>
    <3>1. Len(batch.copies) # Len(description.buffers)
      BY <1>1, <2>2, EntriesAre
    <3> QED BY <1>1, <3>1 DEF ReadbackInv, BuffersFirst
  <2>9. c \in PreparedBufferReadbacks
    BY <2>4, <2>6, <2>7 DEF PreparedBufferReadbacks
  <2>10. c.staging_offset = batch.size /\ c.size = r.size /\ c.size <= MaxSize - batch.size
    BY <2>4, <2>5, <2>7
  <2> HIDE DEF c, r
  <2>11. batch' = WithCopy(batch, c)
    BY <2>1, <2>2, <2>10 DEF WithCopy, Batches
  <2>12. batch' \in Batches /\ Laid(batch')
    BY <2>2, <2>8, <2>9, <2>10, <2>11, CopyLaid
  <2>13. BuffersFirst'
    BY <2>8, <2>11 DEF BuffersFirst, WithCopy
  <2> QED BY <1>1, <2>1, <2>2, <2>12, <2>13, Filling DEF prepareVars
<1> QED BY <1>2, <1>3

LEMMA PrepareImageKeeps ==
    ASSUME ReadbackInv, OwnersInv', Accepted', PrepareImage
    PROVE  ReadbackInv'
<1> DEFINE r == description.images[Len(batch.images) + 1]
           u == ImageSnapshot(r)
           place == batch.size + Padding(batch.size)
<1>1. /\ step = "items" /\ Len(batch.copies) = Len(description.buffers)
      /\ Len(batch.images) < Len(description.images)
      /\ UNCHANGED <<buffers, commandVars, gpuVars, callVars>>
  BY DEF PrepareImage, ownerVars
<1>2. CASE ImageItemError(r) # "none"
  <2>1. Refuse(ImageItemError(r))
    BY <1>2 DEF PrepareImage
  <2> QED BY <1>1, <2>1, Refused
<1>3. CASE ImageItemError(r) = "none"
  <2>1. /\ batch' = [batch EXCEPT !.images = Append(@, u),
                                  !.size = u.region.buffer_offset + u.payload]
        /\ UNCHANGED <<step, prepareVars>>
    BY <1>3 DEF PrepareImage
  <2>2. /\ batch \in Batches /\ Laid(batch) /\ description \in Descriptions
        /\ allocator \in Allocators
    BY <1>1, StagingIsDescribed DEF ReadbackInv, ReadbackTypeOK
  <2>3. r \in ImageReadbackItems
    <3>1. description.images \in Seq(ImageReadbackItems)
      BY <2>2, ReadbackAssumption
    <3>2. Len(batch.images) \in Nat
      BY <2>2, EntriesAre
    <3> QED BY <1>1, <3>1, <3>2
  <2>4. r.source \in Images \cup {Null} /\ r.layout \in STRING /\ r.region \in Regions
    BY <2>3 DEF ImageReadbackItems
  <2>5. /\ Live(Image(r.source)) /\ ValidImageRegion(Image(r.source).config, r.region)
        /\ ReadbackFootprint(r.region) # Overflow
        /\ FitsReadback(batch.size, ReadbackFootprint(r.region))
    BY <1>3 DEF ImageItemError
  <2>6. Image(r.source).handle \in Handles
    <3>1. r.source \in Images /\ Image(r.source) = images[r.source]
      BY <2>4, <2>5 DEF Image, Live
    <3> QED BY <2>5, <3>1, ImageStands DEF ImageImpls, ReadbackInv
  <2>7. /\ batch.size \in Nat /\ MaxSize \in Nat
        /\ Padding(batch.size) \in Nat /\ place % 4 = 0
    BY <2>2, EntriesAre, PaddingAligns
  <2>8. /\ r.region.width # 0 /\ r.region.height # 0
        /\ RowTexels(r.region) >= r.region.width
    <3>1. r.region.width \in Nat /\ r.region.row_length \in Nat
      BY <2>4 DEF Regions
    <3>2. /\ r.region.width # 0 /\ r.region.height # 0
          /\ r.region.row_length # 0 => r.region.row_length >= r.region.width
      BY <2>5 DEF ValidImageRegion, InsideMip
    <3> QED BY <3>1, <3>2 DEF RowTexels
  <2>9. /\ ReadbackFootprint(r.region) \in Nat
        /\ ReadbackFootprint(r.region) =
             (RowTexels(r.region) * (r.region.height - 1) + r.region.width) * Texel
    BY <2>4, <2>5, <2>8, ReadbackFootprintIs
  <2> DEFINE at == [r.region EXCEPT !.buffer_offset = place]
  <2>10. /\ at \in Regions /\ at.buffer_offset = place /\ at.width = r.region.width
         /\ at.height = r.region.height /\ at.row_length = r.region.row_length
    <3>1. place \in Nat
      BY <2>7
    <3> HIDE DEF place, r
    <3> QED BY <2>4, <3>1 DEF Regions
  <2>11. u = [source |-> r.source, image |-> Image(r.source).handle, layout |-> r.layout,
              region |-> at, payload |-> ReadbackFootprint(r.region)]
    BY DEF ImageSnapshot
  <2> HIDE DEF at, u, place
  <2>12. u \in PreparedImageReadbacks
    BY <2>4, <2>6, <2>9, <2>10, <2>11 DEF PreparedImageReadbacks
  <2>13. u.region = at /\ u.payload = ReadbackFootprint(r.region)
    BY <2>11
  <2>14. Shaped(u)
    BY <2>8, <2>9, <2>10, <2>13 DEF Shaped, RowTexels
  <2>15. /\ u.region.buffer_offset % 4 = 0 /\ u.region.buffer_offset >= batch.size
         /\ u.region.buffer_offset + u.payload <= MaxSize
    BY <2>5, <2>7, <2>9, <2>10, <2>13 DEF FitsReadback, place
  <2>16. batch' = WithImage(batch, u)
    BY <2>1, <2>2 DEF WithImage, Batches
  <2>17. batch' \in Batches /\ Laid(batch')
    BY <2>2, <2>12, <2>14, <2>15, <2>16, ImageLaid
  <2>18. BuffersFirst'
    BY <1>1, <2>1, <2>16 DEF BuffersFirst, WithImage, prepareVars
  <2> QED BY <1>1, <2>1, <2>2, <2>17, <2>18, Filling DEF prepareVars
<1> QED BY <1>2, <1>3

LEMMA CreateStagingKeeps ==
    ASSUME ReadbackInv, OwnersInv', Accepted', CreateStaging
    PROVE  ReadbackInv'
<1> USE DEF ReadbackInv
<1>1. step = "items" /\ UNCHANGED <<commandVars, gpuVars, callVars>>
  BY DEF CreateStaging
<1>2. CASE CreateBuffer(Local, allocator, StagingDescription)
  <2>1. step' = "inspect" /\ batch' = batch
    BY <1>2 DEF CreateStaging, CreateBuffer, CreateBufferRejected, CreateBufferFails, Returns
  <2>2. /\ StagingDescription \in BufferConfigs /\ StagingDescription.size = batch.size
        /\ allocator \in Allocators /\ Local \in Buffers /\ Owner \in Buffers \ {Local}
    BY <1>1, StagingIsDescribed, ReadbackAssumption
  <2>3. /\ Live(buffers'[Local]) /\ buffers'[Local].config = StagingDescription
        /\ buffers'[Local].mapping = FALSE /\ buffers'[Owner] = buffers[Owner]
    BY <1>2, <2>2, CreatedBuffer
  <2>4. /\ uses = <<>> /\ recorded = <<>> /\ published = Null /\ polled = 0 /\ batch # Null
        /\ batch \in Batches /\ ~Live(Staging)
    BY <1>1 DEF ReadbackTypeOK, StagingLives, Preparing, Calling, AllPolled, Mapped
  <2>5. ReadbackTypeOK'
    BY <1>1, <2>1, <2>4
    DEF ReadbackTypeOK, Preparing, Calling, AllPolled, Mapped, commandVars, gpuVars, callVars
  <2>6. ~Live(Staging)'
    BY <2>3, <2>4 DEF Staging, Live
  <2>7. StagingLives'
    BY <2>1, <2>2, <2>3, <2>4, <2>6 DEF StagingLives, Preparing, Mapped, Live
  <2>8. MemoryHolds' /\ CallHolds' /\ BuffersFirst'
    BY <1>1, <2>1, <2>4, <2>6
    DEF MemoryHolds, CallHolds, BuffersFirst, Finished, AllPolled, Mapped, gpuVars, callVars
  <2>9. Laid(batch') /\ recorded' = <<>>
    BY <1>1, <2>1, <2>4 DEF commandVars
  <2> QED BY <2>5, <2>7, <2>8, <2>9, NothingRecorded
<1>3. CASE ~CreateBuffer(Local, allocator, StagingDescription)
  <2>1. /\ buffers' = buffers
        /\ \/ Refuse("native") \/ Refuse(CreateBufferError(allocator, StagingDescription))
    BY <1>3 DEF CreateStaging, CreateBufferRejected, CreateBufferFails, ownerVars
  <2> QED BY <1>1, <2>1, Refused
<1> QED BY <1>2, <1>3

LEMMA PrepareInspectsKeeps ==
    ASSUME ReadbackInv, OwnersInv', Accepted', PrepareInspects
    PROVE  ReadbackInv'
<1> USE DEF ReadbackInv
<1>1. step = "inspect" /\ step' = "idle" /\ UNCHANGED <<commandVars, prepareVars, uses, callVars>>
  BY DEF PrepareInspects, PrepareAccepts, gpuVars
<1>2. /\ uses = <<>> /\ recorded = <<>> /\ published = Null /\ polled = 0 /\ pending \in BOOLEAN
      /\ batch # Null /\ batch \in Batches /\ ~Live(Staging)
      /\ command # Null => command \in CommandTypes
      /\ Live(buffers[Local]) /\ buffers[Local].config.size = batch.size
      /\ ~buffers[Local].mapping
  BY <1>1 DEF ReadbackTypeOK, StagingLives, Preparing, Calling, AllPolled, Mapped
<1>3. /\ Local \in Buffers /\ Owner \in Buffers /\ Local # Owner
      /\ buffers \in [Buffers -> BufferImpls \cup {Null}]
  BY ReadbackAssumption DEF OwnersInv, ResourcesTypeOK
<1>4. CASE PrepareAccepts
  <2>1. /\ batch' = batch /\ device' = [i \in 0..batch.size - 1 |-> Undefined]
        /\ buffers' = [buffers EXCEPT ![Owner] = buffers[Local], ![Local] = Null]
    BY <1>3, <1>4 DEF PrepareAccepts, MoveBuffer
  <2>2. Staging' = buffers[Local] /\ buffers'[Local] = Null
    BY <1>3, <2>1 DEF Staging
  <2>3. ReadbackTypeOK'
    BY <1>1, <1>2, <2>1
    DEF ReadbackTypeOK, Preparing, Calling, AllPolled, Mapped, commandVars, callVars
  <2>4. StagingLives'
    BY <1>1, <1>2, <2>1, <2>2 DEF StagingLives, Preparing, Mapped, Live
  <2>5. MemoryHolds' /\ CallHolds' /\ BuffersFirst'
    BY <1>1, <1>2, <2>1
    DEF MemoryHolds, CallHolds, BuffersFirst, Finished, AllPolled, Mapped, callVars
  <2>6. Laid(batch') /\ recorded' = <<>>
    BY <1>1, <1>2, <2>1 DEF commandVars
  <2> QED BY <2>3, <2>4, <2>5, <2>6, NothingRecorded
<1>5. CASE ~PrepareAccepts
  <2>1. batch' = Null /\ buffers' = [buffers EXCEPT ![Local] = Null]
    BY <1>5 DEF PrepareInspects, EndBuffer
  <2>2. ~Live(buffers[Local])' /\ ~Live(Staging)'
    BY <1>2, <1>3, <2>1 DEF Staging, Live
  <2> QED BY <1>1, <1>2, <2>1, <2>2, Dropped DEF commandVars, callVars
<1> QED BY <1>4, <1>5

-----------------------------------------------------------------------------
(* Recording                                                               *)

(* What recordReadbackBatch() has found when it begins to record.           *)
LEMMA Validated ==
    ASSUME ReadbackInv, NEW d \in Devices \cup {Null}, RecordReadbackError(d) = "none"
    PROVE  /\ batch # Null /\ batch \in Batches /\ d \in Devices /\ RecordingError(d) = "none"
           /\ "transfer_dst" \in Staging.config.usage /\ Staging.config.size = batch.size
           /\ \A k \in DOMAIN batch.copies : CopyEntryError(batch.copies[k]) = "none"
           /\ \A k \in DOMAIN batch.images : ImageEntryError(d, batch.images[k]) = "none"
<1> DEFINE buffer == [k \in DOMAIN batch.copies |-> CopyEntryError(batch.copies[k])]
           image == [k \in DOMAIN batch.images |-> ImageEntryError(d, batch.images[k])]
<1>1. /\ batch # Null /\ RecordingError(d) = "none"
      /\ "transfer_dst" \in Staging.config.usage /\ Staging.config.size = batch.size
      /\ FirstError(buffer) = "none" /\ FirstError(image) = "none"
  BY DEF RecordReadbackError
<1>2. d \in Devices
  BY <1>1 DEF RecordingError
<1>3. batch \in Batches
  BY <1>1 DEF ReadbackInv, ReadbackTypeOK
<1>4. /\ DOMAIN buffer = DOMAIN batch.copies /\ DOMAIN image = DOMAIN batch.images
      /\ DOMAIN batch.copies \subseteq Nat /\ DOMAIN batch.images \subseteq Nat
  BY <1>3, EntriesAre
<1>5. /\ \A k \in DOMAIN batch.copies : buffer[k] = CopyEntryError(batch.copies[k])
      /\ \A k \in DOMAIN batch.images : image[k] = ImageEntryError(d, batch.images[k])
  OBVIOUS
<1> HIDE DEF buffer, image
<1>6. \A k \in DOMAIN batch.copies : buffer[k] = "none"
  BY <1>1, <1>4, NoErrors
<1>7. \A k \in DOMAIN batch.images : image[k] = "none"
  BY <1>1, <1>4, NoErrors
<1> QED BY <1>1, <1>2, <1>3, <1>5, <1>6, <1>7

LEMMA NativeCopyAccepted ==
    ASSUME ReadbackInv, step = "idle", NEW d \in Devices \cup {Null},
           RecordReadbackError(d) = "none", NEW k \in DOMAIN batch.copies
    PROVE  CopyBufferError(d, Buffer(batch.copies[k].source), Staging,
                           BufferCommands[k].region) = "none"
<1> DEFINE r == BufferCommands[k].region
           c == batch.copies[k]
           source == Buffer(c.source)
<1>1. r.src_offset = c.source_offset /\ r.dst_offset = c.staging_offset /\ r.size = c.size
  BY DEF BufferCommands
<1>2. /\ RecordingError(d) = "none" /\ "transfer_dst" \in Staging.config.usage
      /\ CopyEntryError(c) = "none" /\ batch # Null
  BY Validated
<1>3. Live(Staging)
  BY <1>2 DEF ReadbackInv, StagingLives, Preparing
<1>4. /\ Live(source) /\ "transfer_src" \in source.config.usage
      /\ Within(source.config.size, r.src_offset, r.size)
      /\ Within(Staging.config.size, r.dst_offset, r.size)
  BY <1>1, <1>2 DEF CopyEntryError
<1>5. r.size # 0
  BY <1>4 DEF Within
<1> HIDE DEF r, c, source
<1>6. CopyBufferError(d, source, Staging, r) = "none"
  BY <1>2, <1>3, <1>4, <1>5 DEF CopyBufferError
<1> QED BY <1>6 DEF r, c, source

LEMMA NativeImageCopyAccepted ==
    ASSUME ReadbackInv, step = "idle", NEW d \in Devices \cup {Null},
           RecordReadbackError(d) = "none", NEW k \in DOMAIN batch.images
    PROVE  CopyImageError(d, Staging, Image(batch.images[k].source), "transfer_dst",
                          "transfer_src", batch.images[k].region) = "none"
<1> DEFINE u == batch.images[k]
           r == u.region
           source == Image(u.source)
<1>1. /\ RecordingError(d) = "none" /\ "transfer_dst" \in Staging.config.usage
      /\ ImageEntryError(d, u) = "none" /\ batch # Null /\ batch \in Batches
      /\ Staging.config.size = batch.size
  BY Validated
<1>2. Live(Staging)
  BY <1>1 DEF ReadbackInv, StagingLives, Preparing
<1>3. /\ Live(source) /\ DeviceOf[source.allocator] = d
      /\ "transfer_src" \in source.config.usage
      /\ ValidImageRegion(source.config, r)
      /\ Within(Staging.config.size, r.buffer_offset, u.payload)
  BY <1>1 DEF ImageEntryError
<1>4. r.plain /\ InsideMip(source.config, r)
  BY <1>3 DEF ValidImageRegion
<1>5. ~(r.buffer_offset >= Staging.config.size)
  <2>1. r.buffer_offset \in Nat /\ u.payload \in Nat /\ batch.size \in Nat
    BY <1>1, EntriesAre
  <2> HIDE DEF r, u
  <2> QED BY <1>1, <1>3, <2>1 DEF Within
<1> HIDE DEF r, u, source
<1>6. CopyImageError(d, Staging, source, "transfer_dst", "transfer_src", r) = "none"
  BY <1>1, <1>2, <1>3, <1>4, <1>5 DEF CopyImageError
<1> QED BY <1>6 DEF r, u, source

(* Once everything was validated, every native call succeeds.               *)
LEMMA RecordsWhole ==
    ASSUME ReadbackInv, RecordReadback
    PROVE  \/ recorded' = recorded
           \/ /\ outcome' = "ok" /\ batch # Null /\ Readable
              /\ recorded' = Append(recorded, BufferCommands \o ImageCommands)
<1>1. PICK d \in Devices \cup {Null} :
        \/ recorded' = recorded
        \/ /\ RecordReadbackError(d) = "none"
           /\ RecordAll(BufferCommands \o ImageCommands,
                [k \in DOMAIN batch.copies |->
                    CopyBufferError(d, Buffer(batch.copies[k].source), Staging,
                                    BufferCommands[k].region)] \o
                [k \in DOMAIN batch.images |->
                    CopyImageError(d, Staging, Image(batch.images[k].source), "transfer_dst",
                                   "transfer_src", batch.images[k].region)])
  BY DEF RecordReadback
<1>2. SUFFICES ASSUME recorded' # recorded
      PROVE  /\ outcome' = "ok" /\ batch # Null /\ Readable
             /\ recorded' = Append(recorded, BufferCommands \o ImageCommands)
  OBVIOUS
<1> DEFINE buffer == [k \in DOMAIN batch.copies |->
                         CopyBufferError(d, Buffer(batch.copies[k].source), Staging,
                                         BufferCommands[k].region)]
           image == [k \in DOMAIN batch.images |->
                        CopyImageError(d, Staging, Image(batch.images[k].source), "transfer_dst",
                                       "transfer_src", batch.images[k].region)]
           m == Len(batch.copies)
           n == Len(batch.images)
<1>3. /\ RecordReadbackError(d) = "none" /\ step = "idle"
      /\ RecordAll(BufferCommands \o ImageCommands, buffer \o image)
  BY <1>1, <1>2 DEF RecordReadback
<1>4. \A k \in DOMAIN batch.copies : buffer[k] = "none"
  BY <1>3, NativeCopyAccepted
<1>5. \A k \in DOMAIN batch.images : image[k] = "none"
  BY <1>3, NativeImageCopyAccepted
<1>6. batch # Null /\ batch \in Batches
  BY <1>3, Validated
<1>7. /\ DOMAIN batch.copies = 1..m /\ m \in Nat /\ DOMAIN batch.images = 1..n /\ n \in Nat
      /\ DOMAIN buffer = DOMAIN batch.copies /\ DOMAIN image = DOMAIN batch.images
  BY <1>6, EntriesAre
<1>8. buffer \in [1..m -> {"none"}] /\ image \in [1..n -> {"none"}]
  BY <1>4, <1>5, <1>7
<1> HIDE DEF buffer, image, m, n
<1>9. \A k \in DOMAIN (buffer \o image) : (buffer \o image)[k] = "none"
  <2>1. buffer \o image \in Seq({"none"})
    BY <1>7, <1>8
  <2> QED BY <2>1
<1>10. outcome' = "ok" /\ recorded' = Append(recorded, BufferCommands \o ImageCommands)
  BY <1>3, <1>9, RecordsAll
<1>11. Readable
  <2>1. ASSUME NEW k \in DOMAIN batch.copies
        PROVE  LET c == batch.copies[k] IN
               /\ Live(Buffer(c.source)) /\ Buffer(c.source).handle = c.expected
               /\ Within(Buffer(c.source).config.size, c.source_offset, c.size)
    <3>1. CopyEntryError(batch.copies[k]) = "none"
      BY <1>3, Validated
    <3> QED BY <3>1 DEF CopyEntryError
  <2>2. ASSUME NEW k \in DOMAIN batch.images
        PROVE  LET u == batch.images[k] IN
               /\ Live(Image(u.source)) /\ Image(u.source).handle = u.image
               /\ InsideMip(Image(u.source).config, u.region)
    <3>1. ImageEntryError(d, batch.images[k]) = "none"
      BY <1>3, Validated
    <3>2. ValidImageRegion(Image(batch.images[k].source).config, batch.images[k].region)
      BY <3>1 DEF ImageEntryError
    <3> QED BY <3>1, <3>2 DEF ImageEntryError, ValidImageRegion
  <2> QED BY <2>1, <2>2 DEF Readable
<1> QED BY <1>6, <1>10, <1>11

(* A recording call of the application records its one command, or nothing. *)
LEMMA RecordsOwn ==
    ASSUME ReadbackInv, RecordOwn
    PROVE  \/ recorded' = recorded
           \/ \E commands : /\ outcome' = "ok" /\ recorded' = Append(recorded, commands)
                            /\ Recorded(commands)
<1>1. PICK d \in Devices :
        \/ \E barriers \in Barriers : RecordBarriers(d, barriers)
        \/ \E i, j \in Images, r \in ImageCopies : RecordCopyImage(d, images[i], images[j], r)
  BY DEF RecordOwn
<1>2. CASE \E barriers \in Barriers : RecordBarriers(d, barriers)
  <2>1. PICK barriers \in Barriers : RecordBarriers(d, barriers)
    BY <1>2
  <2>2. \/ recorded' = recorded
        \/ outcome' = "ok" /\ recorded' = Append(recorded, <<[barriers |-> barriers]>>)
    BY <2>1 DEF RecordBarriers, Records, Returns
  <2>3. Recorded(<<[barriers |-> barriers]>>)
    BY DEF Recorded
  <2> QED BY <2>2, <2>3
<1>3. CASE \E i, j \in Images, r \in ImageCopies : RecordCopyImage(d, images[i], images[j], r)
  <2>1. PICK i \in Images, j \in Images, r \in ImageCopies :
          RecordCopyImage(d, images[i], images[j], r)
    BY <1>3
  <2>2. \/ recorded' = recorded
        \/ /\ outcome' = "ok" /\ recorded' = Append(recorded, <<OwnCopy(i, j, r)>>)
           /\ ImageCopyError(d, images[i], images[j], r) = "none"
    BY <2>1 DEF RecordCopyImage, Records, Returns, OwnCopy
  <2>3. ImageCopyError(d, images[i], images[j], r) = "none" => Recorded(<<OwnCopy(i, j, r)>>)
    <3> SUFFICES ASSUME ImageCopyError(d, images[i], images[j], r) = "none"
                 PROVE  Recorded(<<OwnCopy(i, j, r)>>)
      OBVIOUS
    <3>1. /\ Live(images[i]) /\ Live(images[j])
          /\ InsideMip(images[i].config, r.src) /\ InsideMip(images[j].config, r.dst)
      BY DEF ImageCopyError
    <3> QED BY <3>1 DEF Recorded
  <2> QED BY <2>2, <2>3
<1> QED BY <1>1, <1>2, <1>3

LEMMA Appended ==
    ASSUME NEW s, s \in Seq(Range(s)), NEW x
    PROVE  LET more == Append(s, x)
           IN  /\ more \in Seq(Range(more))
               /\ \A n \in DOMAIN more : more[n] = x \/ (n \in DOMAIN s /\ more[n] = s[n])
<1> DEFINE more == Append(s, x)
           m == Len(s)
<1>1. m \in Nat /\ DOMAIN s = 1..m /\ Range(s) \subseteq Range(s) \cup {x}
  OBVIOUS
<1>2. s \in Seq(Range(s) \cup {x})
  OBVIOUS
<1>3. /\ more \in Seq(Range(s) \cup {x}) /\ DOMAIN more = 1..m + 1 /\ Len(more) = m + 1
      /\ \A n \in 1..m : more[n] = s[n]
      /\ more[m + 1] = x
  BY <1>2
<1> HIDE DEF more, m
<1>4. \A n \in DOMAIN more : more[n] = x \/ (n \in DOMAIN s /\ more[n] = s[n])
  <2>1. \A n \in 1..m + 1 : n \in 1..m \/ n = m + 1
    BY <1>1
  <2> QED BY <1>1, <1>3, <2>1
<1>5. \A n \in 1..m + 1 : more[n] \in Range(more)
  BY <1>3 DEF Range
<1>6. more \in [1..m + 1 -> Range(more)]
  <2>1. more = [n \in 1..m + 1 |-> more[n]]
    BY <1>3
  <2> QED BY <1>5, <2>1
<1>7. m + 1 \in Nat
  BY <1>1
<1>8. more \in Seq(Range(more))
  BY <1>6, <1>7
<1> QED BY <1>4, <1>8 DEF more

(* A recording call leaves the batch and the objects alone.                 *)
LEMMA RecordingKeeps ==
    ASSUME ReadbackInv, OwnersInv', Accepted', RecordReadback \/ RecordOwn
    PROVE  ReadbackInv'
<1>1. /\ UNCHANGED <<buffers, images, command, readbackVars>> /\ step = "idle"
  BY DEF RecordReadback, RecordOwn, ownerVars
<1>2. /\ batch' = batch /\ \A b \in Buffers : Same(buffers[b], buffers'[b])
  BY <1>1 DEF readbackVars, Same
<1>3. command' = Null \/ command' \in CommandTypes
  BY <1>1 DEF ReadbackInv, ReadbackTypeOK
<1>4. CASE recorded' = recorded
  <2>1. Recording'
    BY <1>1, <1>2, <1>4, RecordingStays
  <2> QED BY <1>1, <1>3, <1>4, <2>1, Elsewhere
<1>5. CASE recorded' # recorded
  <2>1. PICK commands : Recorded(commands) /\ recorded' = Append(recorded, commands)
    BY <1>5, RecordsWhole, RecordsOwn DEF Recorded
  <2>2. batch # Null
    BY <1>5, RecordsWhole DEF RecordOwn
  <2>3. /\ recorded' \in Seq(Range(recorded'))
        /\ \A n \in DOMAIN recorded' :
             recorded'[n] = commands \/ (n \in DOMAIN recorded /\ recorded'[n] = recorded[n])
    BY <2>1, Appended DEF ReadbackInv, Recording
  <2>4. \A c : Recorded(c) => Recorded(c)'
    <3>1. Readable' = Readable
      <4>1. /\ \A b : Buffer(b)' = Buffer(b)
            /\ \A i : Image(i)' = Image(i)
        BY <1>1 DEF Buffer, Image
      <4> QED BY <1>2, <4>1 DEF Readable, Live
    <3>2. BufferCommands' = BufferCommands /\ ImageCommands' = ImageCommands
      BY <1>1, <1>2 DEF BufferCommands, ImageCommands, Buffer, Image, Staging
    <3>3. \A i, j \in Images, r \in ImageCopies : OwnCopy(i, j, r)' = OwnCopy(i, j, r)
      BY <1>1 DEF OwnCopy
    <3> QED BY <1>1, <3>1, <3>2, <3>3 DEF Recorded, Live
  <2>5. Recording'
    BY <2>1, <2>3, <2>4 DEF ReadbackInv, Recording
  <2> QED BY <1>1, <1>3, <2>2, <2>5, Elsewhere
<1> QED BY <1>4, <1>5

-----------------------------------------------------------------------------
(* The submissions, and the GPU                                            *)

(* Nothing is submitted of a batch that there is not.                       *)
LEMMA InUse ==
    ASSUME ReadbackInv, uses # <<>>
    PROVE  /\ batch # Null /\ batch \in Batches /\ step \notin Preparing /\ Live(Staging)
           /\ DOMAIN device = 0..batch.size - 1
BY DEF ReadbackInv, ReadbackTypeOK, StagingLives, MemoryHolds

LEMMA SubmitUseKeeps ==
    ASSUME ReadbackInv, OwnersInv', Accepted', SubmitUse
    PROVE  ReadbackInv'
<1> USE DEF ReadbackInv
<1> DEFINE use == [device |-> command.device, run |-> "submitted"]
<1>1. /\ step = "idle" /\ command # Null /\ OfBatch # {} /\ uses' = Append(uses, use)
      /\ UNCHANGED <<buffers, images, native, commandVars, step, batch, device, callVars>>
  BY DEF SubmitUse, ownerVars
<1>2. batch # Null
  <2>1. recorded # <<>>
    BY <1>1 DEF OfBatch
  <2> QED BY <2>1 DEF ReadbackTypeOK
<1>3. uses \in Seq(Submissions) /\ use \in Submissions
  BY <1>1 DEF ReadbackTypeOK, CommandTypes, Submissions
<1> HIDE DEF use
<1>4. /\ uses' \in Seq(Submissions) /\ uses' # <<>>
      /\ Len(uses) + 1 \in DOMAIN uses' /\ uses'[Len(uses) + 1] = use
  BY <1>1, <1>3
<1>5. ~Finished'
  BY <1>4 DEF Finished, use
<1>6. ReadbackTypeOK'
  BY <1>1, <1>2, <1>4
  DEF ReadbackTypeOK, Preparing, Calling, AllPolled, Mapped, commandVars, callVars
<1>7. Staging' = Staging
  BY <1>1 DEF Staging
<1>8. StagingLives'
  BY <1>1, <1>7 DEF StagingLives, Live
<1>9. MemoryHolds'
  BY <1>1, <1>5, <1>7 DEF MemoryHolds, Live
<1>10. CallHolds'
  BY <1>1, <1>5, BatchStays DEF CallHolds, AllPolled, Mapped, callVars
<1>11. \A b \in Buffers : Same(buffers[b], buffers'[b])
  BY <1>1 DEF Same
<1> QED BY <1>1, <1>6, <1>8, <1>9, <1>10, <1>11, OnTheBatch

(* The GPU's progress, as long as it does not write behind tryCopy's back.  *)
LEMMA GpuSteps ==
    ASSUME ReadbackInv, OwnersInv', Accepted', uses # <<>>,
           UNCHANGED <<buffers, images, commandVars, step, batch, callVars>>,
           uses' \in Seq(Submissions), Len(uses') = Len(uses),
           DOMAIN device' = DOMAIN device,
           ~Finished, Finished' => \A i \in Written' : device'[i] = WrittenAt(i)',
           \A n \in DOMAIN uses : uses[n].run = "completed" => uses'[n].run = "completed"
    PROVE  ReadbackInv'
<1> USE DEF ReadbackInv
<1>1. step \notin AllPolled
  BY DEF CallHolds
<1>2. uses \in Seq(Submissions) /\ Len(uses) \in Nat /\ DOMAIN uses = 1..Len(uses)
  BY DEF ReadbackTypeOK
<1>3. uses' # <<>>
  BY <1>2
<1>4. ReadbackTypeOK'
  BY <1>3, InUse DEF ReadbackTypeOK, Preparing, commandVars, callVars
<1>5. Staging' = Staging
  BY DEF Staging
<1>6. StagingLives'
  BY <1>5 DEF StagingLives, Live
<1>7. MemoryHolds'
  BY <1>5, BatchStays DEF MemoryHolds, Live
<1>8. CallHolds'
  <2>1. step = "poll" => /\ polled <= Len(uses')
                         /\ pending = FALSE => \A n \in 1..polled : uses'[n].run = "completed"
    <3> SUFFICES ASSUME step = "poll"
                 PROVE  /\ polled <= Len(uses')
                        /\ pending = FALSE => \A n \in 1..polled : uses'[n].run = "completed"
      OBVIOUS
    <3>1. /\ polled <= Len(uses) /\ polled \in Nat
          /\ pending = FALSE => \A n \in 1..polled : uses[n].run = "completed"
      BY DEF CallHolds, ReadbackTypeOK
    <3>2. 1..polled \subseteq DOMAIN uses
      BY <1>2, <3>1
    <3> QED BY <3>1, <3>2
  <2>2. step # "unmap" /\ step # "copy"
    BY <1>1 DEF AllPolled, Mapped
  <2>3. step \in {"map", "invalidate", "copy"} => bytes = [i \in 0..batch.size - 1 |-> Zero]
    BY DEF CallHolds
  <2>4. published # Null => ReadsBack(published)
    BY DEF CallHolds
  <2> QED BY <1>1, <2>1, <2>2, <2>3, <2>4, BatchStays DEF CallHolds, callVars
<1>9. \A b \in Buffers : Same(buffers[b], buffers'[b])
  BY DEF Same
<1>10. step' # "items"
  BY InUse DEF Preparing
<1> QED BY <1>4, <1>6, <1>7, <1>8, <1>9, <1>10, OnTheBatch

LEMMA GpuKeeps ==
    ASSUME ReadbackInv, OwnersInv', Accepted', Gpu
    PROVE  ReadbackInv'
<1> USE DEF ReadbackInv
<1>1. UNCHANGED <<buffers, images, commandVars, step, batch, callVars>>
  BY DEF Gpu, GpuStarts, GpuCompletes, DeviceLost, resourceVars
<1>2. uses \in Seq(Submissions) /\ Len(uses) \in Nat /\ DOMAIN uses = 1..Len(uses)
  BY DEF ReadbackTypeOK
<1>3. ASSUME NEW n, GpuStarts(n) \/ GpuCompletes(n) PROVE ReadbackInv'
  <2>1. PICK run \in {"running", "completed"} :
          /\ uses' = [uses EXCEPT ![n].run = run]
          /\ n \in DOMAIN uses /\ uses[n].run # "completed"
          /\ run = "running" => DOMAIN device' = DOMAIN device
          /\ run = "completed" =>
               device' = [i \in DOMAIN device |-> IF i \in Written THEN WrittenAt(i) ELSE device[i]]
    BY <1>3 DEF GpuStarts, GpuCompletes
  <2>2. uses[n] \in Submissions
    BY <1>2, <2>1
  <2>3. [uses[n] EXCEPT !.run = run] \in Submissions /\ [uses[n] EXCEPT !.run = run].run = run
    BY <2>2 DEF Submissions
  <2>4. /\ uses' \in Seq(Submissions) /\ Len(uses') = Len(uses) /\ uses'[n].run = run
        /\ DOMAIN uses' = DOMAIN uses
        /\ \A m \in DOMAIN uses : m # n => uses'[m] = uses[m]
    <3> DEFINE use == [uses[n] EXCEPT !.run = run]
    <3>1. uses' = [uses EXCEPT ![n] = use] /\ use \in Submissions /\ use.run = run
      BY <2>1, <2>3
    <3> HIDE DEF use
    <3> QED BY <1>2, <2>1, <3>1
  <2>5. ~Finished /\ uses # <<>>
    BY <1>2, <2>1 DEF Finished
  <2>6. DOMAIN device' = DOMAIN device
    BY <2>1
  <2>7. Finished' => \A i \in Written' : device'[i] = WrittenAt(i)'
    <3> SUFFICES ASSUME Finished', NEW i \in Written' PROVE device'[i] = WrittenAt(i)'
      OBVIOUS
    <3>1. run = "completed"
      BY <2>1, <2>4 DEF Finished
    <3>2. /\ Written' = Written /\ WrittenAt(i)' = WrittenAt(i)
      BY <1>1, <2>6, BatchStays
    <3>3. i \in Written /\ i \in DOMAIN device
      BY <3>2 DEF Written
    <3> QED BY <2>1, <3>1, <3>2, <3>3
  <2>8. \A m \in DOMAIN uses : uses[m].run = "completed" => uses'[m].run = "completed"
    BY <2>1, <2>4
  <2> QED BY <1>1, <2>4, <2>5, <2>6, <2>7, <2>8, GpuSteps
<1>4. CASE DeviceLost
  <2>1. /\ InFlight /\ device' = device
        /\ uses' = [n \in DOMAIN uses |->
                      IF uses[n].run = "completed" THEN uses[n]
                      ELSE [uses[n] EXCEPT !.run = "lost"]]
    BY <1>4 DEF DeviceLost
  <2>2. \A n \in DOMAIN uses : [uses[n] EXCEPT !.run = "lost"] \in Submissions
                               /\ [uses[n] EXCEPT !.run = "lost"].run = "lost"
    <3> TAKE n \in DOMAIN uses
    <3>1. uses[n] \in Submissions
      BY <1>2
    <3> QED BY <3>1 DEF Submissions
  <2>3. /\ DOMAIN uses' = 1..Len(uses)
        /\ \A n \in DOMAIN uses : /\ uses'[n] \in Submissions
                                  /\ uses[n].run = "completed" => uses'[n].run = "completed"
                                  /\ uses[n].run # "completed" => uses'[n].run = "lost"
    BY <1>2, <2>1, <2>2
  <2>4. uses' \in Seq(Submissions) /\ Len(uses') = Len(uses)
    <3>1. uses' \in [1..Len(uses) -> Submissions]
      BY <1>2, <2>1, <2>3
    <3> QED BY <1>2, <3>1
  <2>5. PICK n \in DOMAIN uses : uses[n].run # "completed"
    BY <2>1 DEF InFlight
  <2>6. ~Finished /\ ~Finished' /\ uses # <<>>
    BY <1>2, <2>3, <2>5 DEF Finished
  <2> QED BY <1>1, <2>1, <2>3, <2>4, <2>6, GpuSteps
<1> QED BY <1>3, <1>4 DEF Gpu

-----------------------------------------------------------------------------
(* Places in the staging buffer                                            *)

InCopy(k, i) ==
    LET c == batch.copies[k] IN i \in c.staging_offset..c.staging_offset + c.size - 1

InImage(k, i) ==
    LET u == batch.images[k]
    IN  i \in u.region.buffer_offset..u.region.buffer_offset + u.payload - 1

(* No place belongs to two entries.                                         *)
LEMMA PlacesApart ==
    ASSUME batch \in Batches, Laid(batch), NEW i
    PROVE  /\ \A j, k \in DOMAIN batch.copies : InCopy(j, i) /\ InCopy(k, i) => j = k
           /\ \A j \in DOMAIN batch.copies, k \in DOMAIN batch.images :
                ~(InCopy(j, i) /\ InImage(k, i))
           /\ \A j, k \in DOMAIN batch.images : InImage(j, i) /\ InImage(k, i) => j = k
<1>1. /\ DOMAIN batch.copies \subseteq Nat /\ DOMAIN batch.images \subseteq Nat
      /\ \A k \in DOMAIN batch.copies :
           batch.copies[k].staging_offset \in Nat /\ batch.copies[k].size \in Nat
      /\ \A k \in DOMAIN batch.images :
           batch.images[k].region.buffer_offset \in Nat /\ batch.images[k].payload \in Nat
  BY EntriesAre
<1>2. /\ \A k \in DOMAIN batch.copies : InCopy(k, i) =>
           /\ i \in Int /\ batch.copies[k].staging_offset <= i
           /\ i < batch.copies[k].staging_offset + batch.copies[k].size
      /\ \A k \in DOMAIN batch.images : InImage(k, i) =>
           /\ i \in Int /\ batch.images[k].region.buffer_offset <= i
           /\ i < batch.images[k].region.buffer_offset + batch.images[k].payload
  BY <1>1 DEF InCopy, InImage
<1>3. ASSUME NEW j \in DOMAIN batch.copies, NEW k \in DOMAIN batch.copies,
             InCopy(j, i), InCopy(k, i)
      PROVE  j = k
  <2>1. ~(j < k) /\ ~(k < j)
    BY <1>1, <1>2, <1>3 DEF Laid
  <2> QED BY <1>1, <2>1
<1>4. ASSUME NEW j \in DOMAIN batch.copies, NEW k \in DOMAIN batch.images,
             InCopy(j, i), InImage(k, i)
      PROVE  FALSE
  BY <1>1, <1>2, <1>4 DEF Laid
<1>5. ASSUME NEW j \in DOMAIN batch.images, NEW k \in DOMAIN batch.images,
             InImage(j, i), InImage(k, i)
      PROVE  j = k
  <2>1. ~(j < k) /\ ~(k < j)
    BY <1>1, <1>2, <1>5 DEF Laid
  <2> QED BY <1>1, <2>1
<1> QED BY <1>3, <1>4, <1>5

LEMMA MinOfOne ==
    ASSUME NEW k \in Nat
    PROVE  Min({k}) = k
BY DEF Min

(* A place in the range of a buffer.                                        *)
LEMMA WrittenInCopy ==
    ASSUME batch \in Batches, Laid(batch), NEW k \in DOMAIN batch.copies, NEW i, InCopy(k, i)
    PROVE  WrittenAt(i) =
             <<"buffer", k, batch.copies[k].source_offset + i - batch.copies[k].staging_offset>>
<1>1. {j \in DOMAIN batch.copies : InCopy(j, i)} = {k}
  BY PlacesApart
<1>2. {j \in DOMAIN batch.copies :
         LET c == batch.copies[j]
         IN  i \in c.staging_offset..c.staging_offset + c.size - 1} = {k}
  BY <1>1 DEF InCopy
<1>3. k \in Nat
  BY EntriesAre
<1>4. Min({k}) = k
  BY <1>3, MinOfOne
<1> QED BY <1>2, <1>4 DEF WrittenAt

LEMMA DivMod ==
    ASSUME NEW p \in Nat, NEW q \in Nat, NEW rest \in Nat, rest < p
    PROVE  (q * p + rest) \div p = q /\ (q * p + rest) % p = rest
OBVIOUS

LEMMA Monotone ==
    ASSUME NEW a \in Nat, NEW b \in Nat, NEW p \in Nat, a <= b
    PROVE  a * p <= b * p /\ a * p \in Nat /\ b * p \in Nat
OBVIOUS

PitchOf(u) == RowTexels(u.region) * Texel

(* The byte at rest of a row of a region, counted from the first.           *)
LEMMA RowBytes ==
    ASSUME NEW u, u.region \in Regions, Shaped(u),
           NEW row \in 0..u.region.height - 1, NEW rest \in 0..u.region.width * Texel - 1
    PROVE  LET at == row * PitchOf(u) + rest
           IN  /\ at \in 0..u.payload - 1 /\ PitchOf(u) \in Nat
               /\ at \div PitchOf(u) = row /\ at % PitchOf(u) = rest
               /\ rest < u.region.width * Texel
<1> DEFINE pitch == PitchOf(u)
           last == u.region.height - 1
           width == u.region.width
           rows == RowTexels(u.region)
<1>1. /\ rows \in Nat /\ width \in Nat /\ u.region.height \in Nat
      /\ width # 0 /\ u.region.height # 0 /\ rows >= width
      /\ u.payload = (rows * last + width) * Texel
  BY DEF Regions, RowTexels, Shaped
<1>2. pitch = rows * 4 /\ pitch \in Nat /\ last \in Nat /\ row \in Nat /\ row <= last
  BY <1>1 DEF PitchOf, Texel
<1>3. rest \in Nat /\ rest < width * 4 /\ rest < pitch
  BY <1>1, <1>2 DEF Texel
<1> HIDE DEF pitch, last, width, rows
<1>4. row * pitch <= last * pitch /\ row * pitch \in Nat /\ last * pitch \in Nat
  BY <1>2, Monotone
<1>5. last * pitch + width * 4 = u.payload
  <2>1. last * pitch = (rows * last) * 4 /\ rows * last \in Nat
    BY <1>1, <1>2
  <2> DEFINE product == rows * last
  <2>2. u.payload = (product + width) * 4 /\ product \in Nat
    BY <1>1, <2>1 DEF Texel
  <2> HIDE DEF product
  <2>3. product * 4 + width * 4 = (product + width) * 4
    BY <1>1, <2>2
  <2> QED BY <2>1, <2>2, <2>3 DEF product
<1>6. row * pitch + rest \in 0..u.payload - 1
  <2> DEFINE before == row * pitch
             lastly == last * pitch
  <2>1. /\ before \in Nat /\ lastly \in Nat /\ before <= lastly
        /\ lastly + width * 4 = u.payload
    BY <1>4, <1>5
  <2> HIDE DEF before, lastly
  <2>2. before + rest \in 0..u.payload - 1
    BY <1>1, <1>3, <2>1
  <2> QED BY <2>2 DEF before
<1>7. (row * pitch + rest) \div pitch = row /\ (row * pitch + rest) % pitch = rest
  BY <1>2, <1>3, DivMod
<1> QED BY <1>2, <1>3, <1>6, <1>7 DEF pitch, width, Texel

PlaceOf(u, row, rest) == u.region.buffer_offset + row * PitchOf(u) + rest

(* A place in a row of a region of an image.                                *)
LEMMA WrittenInImage ==
    ASSUME batch \in Batches, Laid(batch), NEW k \in DOMAIN batch.images,
           NEW row \in 0..batch.images[k].region.height - 1,
           NEW rest \in 0..batch.images[k].region.width * Texel - 1
    PROVE  /\ InImage(k, PlaceOf(batch.images[k], row, rest))
           /\ WrittenAt(PlaceOf(batch.images[k], row, rest)) =
                <<"image", k, batch.images[k].region.x + rest \div Texel,
                  batch.images[k].region.y + row, rest % Texel>>
<1> DEFINE u == batch.images[k]
           i == PlaceOf(u, row, rest)
           at == row * PitchOf(u) + rest
<1>1. /\ u.region \in Regions /\ u.region.buffer_offset \in Nat /\ u.payload \in Nat /\ Shaped(u)
      /\ k \in Nat
  BY EntriesAre DEF Laid
<1>2. /\ at \in 0..u.payload - 1 /\ at \div PitchOf(u) = row /\ at % PitchOf(u) = rest
      /\ rest < u.region.width * Texel /\ PitchOf(u) \in Nat
  BY <1>1, RowBytes
<1>3. row \in Nat /\ rest \in Nat
  BY <1>1, <1>2 DEF Regions
<1>4. i = u.region.buffer_offset + at /\ i - u.region.buffer_offset = at /\ i \in Nat
  <2>1. row * PitchOf(u) \in Nat
    BY <1>2, <1>3
  <2> DEFINE before == row * PitchOf(u)
  <2>2. /\ i = u.region.buffer_offset + before + rest /\ at = before + rest /\ before \in Nat
    BY <2>1 DEF PlaceOf
  <2> HIDE DEF before, i, at
  <2> QED BY <1>1, <1>3, <2>2
<1> HIDE DEF i, at
<1>5. InImage(k, i)
  BY <1>1, <1>2, <1>4 DEF InImage
<1>6. {j \in DOMAIN batch.copies :
         LET c == batch.copies[j]
         IN  i \in c.staging_offset..c.staging_offset + c.size - 1} = {}
  <2>1. \A j \in DOMAIN batch.copies : ~InCopy(j, i)
    BY <1>5, PlacesApart
  <2> QED BY <2>1 DEF InCopy
<1> DEFINE Here(j) == /\ i - batch.images[j].region.buffer_offset
                           \in 0..batch.images[j].payload - 1
                      /\ (i - batch.images[j].region.buffer_offset) % PitchOf(batch.images[j])
                           < batch.images[j].region.width * Texel
<1>7. {j \in DOMAIN batch.images : Here(j)} = {k}
  <2>1. Here(k)
    BY <1>2, <1>4
  <2>2. ASSUME NEW j \in DOMAIN batch.images, Here(j) PROVE j = k
    <3>1. batch.images[j].region.buffer_offset \in Nat /\ batch.images[j].payload \in Nat
      BY EntriesAre
    <3>2. i - batch.images[j].region.buffer_offset \in 0..batch.images[j].payload - 1
      BY <2>2
    <3>3. InImage(j, i)
      BY <1>4, <3>1, <3>2 DEF InImage
    <3> QED BY <1>5, <3>3, PlacesApart
  <2> HIDE DEF Here
  <2> QED BY <2>1, <2>2
<1>8. {j \in DOMAIN batch.images :
         /\ i - batch.images[j].region.buffer_offset \in 0..batch.images[j].payload - 1
         /\ (i - batch.images[j].region.buffer_offset) % (RowTexels(batch.images[j].region) * Texel)
              < batch.images[j].region.width * Texel} = {k}
  BY <1>7 DEF PitchOf
<1>9. Min({k}) = k
  BY <1>1, MinOfOne
<1>10. WrittenAt(i) = <<"image", k, u.region.x + (at % PitchOf(u)) \div Texel,
                        u.region.y + at \div PitchOf(u), (at % PitchOf(u)) % Texel>>
  <2> HIDE DEF Here
  <2> QED BY <1>4, <1>6, <1>8, <1>9 DEF WrittenAt, PitchOf
<1>11. WrittenAt(i) = <<"image", k, u.region.x + rest \div Texel, u.region.y + row, rest % Texel>>
  BY <1>2, <1>10
<1> QED BY <1>5, <1>11 DEF i

(* What tryCopy copies lies in a range or in a row of a region.             *)
LEMMA CopiedIs ==
    ASSUME batch \in Batches, Laid(batch), NEW i, Copied(i)
    PROVE  \/ \E k \in DOMAIN batch.copies : InCopy(k, i)
           \/ \E k \in DOMAIN batch.images :
                \E row \in 0..batch.images[k].region.height - 1,
                   rest \in 0..batch.images[k].region.width * Texel - 1 :
                  i = PlaceOf(batch.images[k], row, rest)
<1>1. CASE \E k \in DOMAIN batch.copies : InCopy(k, i)
  BY <1>1
<1>2. CASE ~\E k \in DOMAIN batch.copies : InCopy(k, i)
  <2>image. PICK k \in DOMAIN batch.images :
          \E row \in 0..batch.images[k].region.height - 1 :
            LET r == batch.images[k].region
                first == r.buffer_offset + row * RowTexels(r) * Texel
            IN  i \in first..first + r.width * Texel - 1
    BY <1>2 DEF Copied, InCopy
  <2>1. PICK row \in 0..batch.images[k].region.height - 1 :
          LET r == batch.images[k].region
              first == r.buffer_offset + row * RowTexels(r) * Texel
          IN  i \in first..first + r.width * Texel - 1
    BY <2>image
  <2> DEFINE u == batch.images[k]
             first == u.region.buffer_offset + row * PitchOf(u)
  <2>2. /\ u.region \in Regions /\ u.region.buffer_offset \in Nat
    BY EntriesAre
  <2>3. RowTexels(u.region) \in Nat /\ u.region.width \in Nat /\ u.region.height \in Nat
    BY <2>2 DEF Regions, RowTexels
  <2>4. row \in Nat
    BY <2>3
  <2>5. row * RowTexels(u.region) * Texel = row * PitchOf(u) /\ row * PitchOf(u) \in Nat
    BY <2>3, <2>4 DEF PitchOf, Texel
  <2>6. first \in Nat /\ i \in first..first + u.region.width * Texel - 1
    BY <2>1, <2>2, <2>5
  <2>7. i - first \in 0..u.region.width * Texel - 1 /\ i = first + (i - first)
    <3>1. u.region.width * Texel \in Nat
      BY <2>3 DEF Texel
    <3> HIDE DEF first
    <3> QED BY <2>6, <3>1
  <2>8. i = PlaceOf(u, row, i - first)
    BY <2>7 DEF PlaceOf
  <2> QED BY <2>7, <2>8
<1> QED BY <1>1, <1>2

(* Every byte that tryCopy copies is one that the GPU writes.               *)
LEMMA CopiedIsWritten ==
    ASSUME batch \in Batches, Laid(batch), NEW i, Copied(i)
    PROVE  WrittenAt(i) # Zero
<1>1. CASE \E k \in DOMAIN batch.copies : InCopy(k, i)
  <2>1. PICK k \in DOMAIN batch.copies : InCopy(k, i)
    BY <1>1
  <2>2. WrittenAt(i) =
          <<"buffer", k, batch.copies[k].source_offset + i - batch.copies[k].staging_offset>>
    BY <2>1, WrittenInCopy
  <2> QED BY <2>2 DEF Zero
<1>2. CASE ~\E k \in DOMAIN batch.copies : InCopy(k, i)
  <2>image. PICK k \in DOMAIN batch.images :
          \E row \in 0..batch.images[k].region.height - 1,
             rest \in 0..batch.images[k].region.width * Texel - 1 :
            i = PlaceOf(batch.images[k], row, rest)
    BY <1>2, CopiedIs
  <2>1. PICK row \in 0..batch.images[k].region.height - 1,
             rest \in 0..batch.images[k].region.width * Texel - 1 :
          i = PlaceOf(batch.images[k], row, rest)
    BY <2>image
  <2>2. WrittenAt(i) = <<"image", k, batch.images[k].region.x + rest \div Texel,
                         batch.images[k].region.y + row, rest % Texel>>
    BY <2>1, WrittenInImage
  <2> QED BY <2>2 DEF Zero
<1> QED BY <1>1, <1>2

-----------------------------------------------------------------------------
(* tryCopyCompletedReadbackBatch                                           *)

(* There is a batch that was submitted, and tryCopy runs or may be called.  *)
LEMMA CallIsOn ==
    ASSUME ReadbackInv, step \in Calling \/ (step = "idle" /\ batch # Null /\ uses # <<>>)
    PROVE  /\ batch # Null /\ batch \in Batches /\ uses # <<>> /\ Laid(batch)
           /\ step \notin Preparing /\ Live(Staging) /\ ~Live(buffers[Local])
           /\ Staging.config.size = batch.size
           /\ uses \in Seq(Submissions) /\ Len(uses) \in Nat /\ DOMAIN uses = 1..Len(uses)
           /\ polled \in Nat /\ pending \in BOOLEAN
<1>1. batch # Null /\ uses # <<>> /\ step \notin Preparing
  BY DEF ReadbackInv, ReadbackTypeOK, Preparing, Calling, AllPolled, Mapped
<1> QED BY <1>1 DEF ReadbackInv, ReadbackTypeOK, StagingLives, Preparing

(* A step of tryCopy leaves the batch, the submissions and the memory.      *)
LEMMA CallSteps ==
    ASSUME ReadbackInv, OwnersInv', Accepted',
           step \in Calling \/ (step = "idle" /\ batch # Null /\ uses # <<>>),
           step' \in Calling \cup {"idle"},
           UNCHANGED <<images, commandVars, batch, gpuVars>>,
           \A b \in Buffers : Same(buffers[b], buffers'[b]),
           polled' \in Nat, pending' \in BOOLEAN, step' = "idle" => polled' = 0,
           StagingLives', CallHolds'
    PROVE  ReadbackInv'
<1>1. /\ batch # Null /\ batch \in Batches /\ uses # <<>> /\ uses \in Seq(Submissions)
      /\ Live(Staging)
  BY CallIsOn
<1>2. command # Null => command \in CommandTypes
  BY DEF ReadbackInv, ReadbackTypeOK
<1>3. step' \notin Preparing /\ step' # "items" /\ (step' \in Calling \/ step' = "idle")
  BY DEF Preparing, Calling, AllPolled, Mapped
<1>4. ReadbackTypeOK'
  BY <1>1, <1>2, <1>3 DEF ReadbackTypeOK, commandVars, gpuVars
<1>5. MemoryHolds'
  BY <1>1, BatchStays DEF ReadbackInv, MemoryHolds, Finished, gpuVars
<1> QED BY <1>3, <1>4, <1>5, OnTheBatch

(* The staging buffer stays what it is, mapped or not.                      *)
LEMMA StagingStays ==
    ASSUME ReadbackInv, step \in Calling \/ (step = "idle" /\ batch # Null /\ uses # <<>>),
           step' \in Calling \cup {"idle"}, step' \in Mapped <=> step \in Mapped,
           batch' = batch, buffers' = buffers
    PROVE  StagingLives' /\ \A b \in Buffers : Same(buffers[b], buffers'[b])
<1>1. batch # Null /\ Live(Staging) /\ ~Live(buffers[Local]) /\ Staging.config.size = batch.size
  BY CallIsOn
<1>2. step' \notin Preparing /\ step' # "inspect"
  BY DEF Preparing, Calling, AllPolled, Mapped
<1>3. Staging' = Staging
  BY DEF Staging
<1>4. /\ step \in Mapped => Staging.mapping
      /\ step \notin Mapped => ~Staging.mapping
  BY <1>1 DEF ReadbackInv, StagingLives
<1>5. StagingLives'
  BY <1>1, <1>2, <1>3, <1>4 DEF StagingLives, Live
<1> QED BY <1>5 DEF Same

(* It is mapped, or unmapped.                                               *)
LEMMA StagingRemapped ==
    ASSUME ReadbackInv, step \in Calling, step' \in Calling \cup {"idle"}, batch' = batch,
           NEW mapping \in BOOLEAN, mapping <=> step' \in Mapped,
           buffers' = [buffers EXCEPT ![Owner].mapping = mapping]
    PROVE  StagingLives' /\ \A b \in Buffers : Same(buffers[b], buffers'[b])
<1>1. batch # Null /\ Live(Staging) /\ ~Live(buffers[Local]) /\ Staging.config.size = batch.size
  BY CallIsOn
<1>2. step' \notin Preparing /\ step' # "inspect"
  BY DEF Preparing, Calling, AllPolled, Mapped
<1>3. /\ Local \in Buffers /\ Owner \in Buffers /\ Local # Owner
      /\ buffers \in [Buffers -> BufferImpls \cup {Null}]
  BY ReadbackAssumption DEF ReadbackInv, OwnersInv, ResourcesTypeOK
<1>4. buffers[Owner] \in BufferImpls /\ Staging = buffers[Owner]
  BY <1>1, <1>3 DEF Staging, Live
<1> DEFINE after == [buffers[Owner] EXCEPT !.mapping = mapping]
<1>5. /\ after \in BufferImpls /\ after.mapping = mapping
      /\ after.handle = Staging.handle /\ after.config = Staging.config
  BY <1>4 DEF BufferImpls
<1>6. buffers' = [buffers EXCEPT ![Owner] = after]
  OBVIOUS
<1> HIDE DEF after
<1>7. /\ Staging' = after /\ \A b \in Buffers \ {Owner} : buffers'[b] = buffers[b]
  BY <1>3, <1>6 DEF Staging
<1>8. after # Null
  BY <1>5, ResourcesAssumption DEF BufferImpls
<1>9. StagingLives'
  BY <1>1, <1>2, <1>3, <1>5, <1>7, <1>8 DEF StagingLives, Live
<1>10. \A b \in Buffers : Same(buffers[b], buffers'[b])
  BY <1>1, <1>4, <1>5, <1>7, <1>8 DEF Same, Staging, Live
<1> QED BY <1>9, <1>10

(* tryCopy returns, and has published nothing new.                          *)
LEMMA LeaveHolds ==
    ASSUME ReadbackInv, Leave, UNCHANGED <<batch, published>>
    PROVE  /\ CallHolds' /\ polled' \in Nat /\ pending' \in BOOLEAN /\ polled' = 0
           /\ step' \in Calling \cup {"idle"} /\ step' \notin Mapped
<1>1. step' = "idle" /\ polled' = 0 /\ pending' = FALSE
  BY DEF Leave
<1>2. CallHolds'
  BY <1>1, BatchStays DEF ReadbackInv, CallHolds, AllPolled, Mapped
<1> QED BY <1>1, <1>2 DEF Mapped

LEMMA TryCopyKeeps ==
    ASSUME ReadbackInv, OwnersInv', Accepted', TryCopy
    PROVE  ReadbackInv'
<1>1. /\ step = "idle" /\ batch # Null /\ uses # <<>> /\ step' = "poll" /\ published' = Null
      /\ UNCHANGED <<buffers, images, commandVars, batch, gpuVars, localVars>>
  BY DEF TryCopy, resourceVars
<1>2. polled = 0 /\ pending \in BOOLEAN /\ uses \in Seq(Submissions)
  BY <1>1 DEF ReadbackInv, ReadbackTypeOK, Calling, AllPolled, Mapped
<1>3. CallHolds'
  <2>1. 0 <= Len(uses) /\ 1..0 = {}
    BY <1>2
  <2> QED BY <1>1, <1>2, <2>1 DEF CallHolds, AllPolled, Mapped, gpuVars, localVars
<1>4. step \notin Mapped /\ step' \notin Mapped /\ step' \in Calling
  BY <1>1 DEF Calling, AllPolled, Mapped
<1> QED BY <1>1, <1>2, <1>3, <1>4, StagingStays, CallSteps DEF localVars

LEMMA PollAnswersKeeps ==
    ASSUME ReadbackInv, OwnersInv', Accepted', NEW n, PollAnswers(n)
    PROVE  ReadbackInv'
<1>1. /\ step = "poll" /\ step' = "poll" /\ n = polled + 1 /\ n \in DOMAIN uses /\ polled' = n
      /\ pending' = (pending \/ uses[n].run # "completed")
      /\ UNCHANGED <<buffers, images, commandVars, batch, gpuVars, published>>
  BY DEF PollAnswers, NotCompleted, resourceVars
<1>2. step \in Calling /\ step \notin Mapped
  BY <1>1 DEF Calling, AllPolled, Mapped
<1>3. polled \in Nat /\ pending \in BOOLEAN /\ DOMAIN uses = 1..Len(uses) /\ Len(uses) \in Nat
  BY <1>2, CallIsOn
<1>4. polled' \in Nat /\ pending' \in BOOLEAN /\ polled' <= Len(uses)
  BY <1>1, <1>3
<1>5. pending' = FALSE => \A m \in 1..polled' : uses[m].run = "completed"
  <2> SUFFICES ASSUME pending' = FALSE, NEW m \in 1..polled' PROVE uses[m].run = "completed"
    OBVIOUS
  <2>1. pending = FALSE /\ uses[n].run = "completed"
    BY <1>1, <1>3
  <2>2. \A l \in 1..polled : uses[l].run = "completed"
    BY <1>1, <2>1 DEF ReadbackInv, CallHolds
  <2>3. m \in 1..polled \/ m = n
    BY <1>1, <1>3
  <2> QED BY <2>1, <2>2, <2>3
<1>6. published # Null => ReadsBack(published)'
  BY <1>1, BatchStays DEF ReadbackInv, CallHolds
<1>7. CallHolds'
  BY <1>1, <1>4, <1>5, <1>6 DEF CallHolds, AllPolled, Mapped, gpuVars
<1> QED BY <1>1, <1>2, <1>4, <1>7, StagingStays, CallSteps

LEMMA PollEndsKeeps ==
    ASSUME ReadbackInv, OwnersInv', Accepted', PollFails \/ PolledAll
    PROVE  ReadbackInv'
<1>1. /\ step = "poll"
      /\ UNCHANGED <<buffers, images, commandVars, batch, gpuVars, published>>
  BY DEF PollFails, PolledAll, ownerVars
<1>2. step \in Calling /\ step \notin Mapped
  BY <1>1 DEF Calling, AllPolled, Mapped
<1>3. CASE Leave
  BY <1>1, <1>2, <1>3, LeaveHolds, StagingStays, CallSteps
<1>4. CASE ~Leave
  <2>1. /\ polled = Len(uses) /\ ~pending /\ step' = "map"
        /\ bytes' = [i \in 0..batch.size - 1 |-> Zero] /\ UNCHANGED <<polled, pending>>
    BY <1>4 DEF PollFails, PolledAll
  <2>2. /\ uses # <<>> /\ DOMAIN uses = 1..Len(uses)
        /\ polled \in Nat /\ pending \in BOOLEAN
    BY <1>2, CallIsOn
  <2>3. Finished
    <3>1. pending = FALSE
      BY <2>1, <2>2
    <3>2. \A m \in 1..polled : uses[m].run = "completed"
      BY <1>1, <3>1 DEF ReadbackInv, CallHolds
    <3> QED BY <2>1, <2>2, <3>2 DEF Finished
  <2>4. Finished'
    BY <1>1, <2>3 DEF Finished, gpuVars
  <2>5. published # Null => ReadsBack(published)'
    BY <1>1, BatchStays DEF ReadbackInv, CallHolds
  <2>6. CallHolds'
    BY <1>1, <2>1, <2>4, <2>5 DEF CallHolds, AllPolled, Mapped
  <2>7. step' \in Calling /\ step' \notin Mapped /\ step' # "idle"
    BY <2>1 DEF Calling, AllPolled, Mapped
  <2> QED BY <1>1, <1>2, <2>1, <2>2, <2>6, <2>7, StagingStays, CallSteps
<1> QED BY <1>3, <1>4

(* All submissions have completed, and stay completed.                      *)
LEMMA StaysFinished ==
    ASSUME ReadbackInv, step \in AllPolled, UNCHANGED <<batch, gpuVars, published>>
    PROVE  /\ Finished /\ Finished' /\ step \in Calling
           /\ published # Null => ReadsBack(published)'
<1>1. Finished /\ (published # Null => ReadsBack(published))
  BY DEF ReadbackInv, CallHolds
<1> QED BY <1>1, BatchStays DEF Finished, gpuVars, Calling

LEMMA MapStagingKeeps ==
    ASSUME ReadbackInv, OwnersInv', Accepted', MapStaging
    PROVE  ReadbackInv'
<1>1. /\ step = "map" /\ Map(Owner)
      /\ UNCHANGED <<images, commandVars, batch, gpuVars, published>>
  BY DEF MapStaging, Map, ownerVars
<1>2. step \in AllPolled /\ step \in Calling /\ step \notin Mapped
  BY <1>1 DEF Calling, AllPolled, Mapped
<1>3. CASE outcome' = "ok"
  <2>1. MapError(Owner) # "ok"
    BY DEF MapError
  <2>2. buffers' = [buffers EXCEPT ![Owner].mapping = TRUE]
    BY <1>1, <1>3, <2>1 DEF Map, Returns
  <2>3. step' = "invalidate" /\ UNCHANGED localVars
    BY <1>3 DEF MapStaging
  <2>4. step' \in Mapped /\ step' \in Calling /\ step' # "idle"
    BY <2>3 DEF Calling, AllPolled, Mapped
  <2>5. bytes = [i \in 0..batch.size - 1 |-> Zero]
    BY <1>1 DEF ReadbackInv, CallHolds
  <2>6. CallHolds'
    BY <1>1, <1>2, <2>3, <2>5, StaysFinished DEF CallHolds, localVars
  <2>7. polled' \in Nat /\ pending' \in BOOLEAN
    BY <1>2, <2>3, CallIsOn DEF localVars
  <2>8. StagingLives' /\ \A b \in Buffers : Same(buffers[b], buffers'[b])
    BY <1>1, <1>2, <2>2, <2>4, StagingRemapped
  <2> QED BY <1>1, <1>2, <2>4, <2>6, <2>7, <2>8, CallSteps
<1>4. CASE outcome' # "ok"
  <2>1. Leave /\ buffers' = buffers
    BY <1>1, <1>4 DEF MapStaging, Map, Returns, ownerVars
  <2> QED BY <1>1, <1>2, <2>1, LeaveHolds, StagingStays, CallSteps
<1> QED BY <1>3, <1>4

LEMMA InvalidateStagingKeeps ==
    ASSUME ReadbackInv, OwnersInv', Accepted', InvalidateStaging
    PROVE  ReadbackInv'
<1>1. /\ step = "invalidate" /\ step' \in {"copy", "abandon"}
      /\ step' = "copy" => host' = device
      /\ UNCHANGED <<buffers, images, commandVars, batch, gpuVars, polled, pending, bytes, published>>
  BY DEF InvalidateStaging, Synchronize, ownerVars
<1>2. /\ step \in AllPolled /\ step \in Calling /\ step \in Mapped
      /\ step' \in Mapped /\ step' \in Calling /\ step' # "idle"
  BY <1>1 DEF Calling, AllPolled, Mapped
<1>3. bytes = [i \in 0..batch.size - 1 |-> Zero]
  BY <1>1 DEF ReadbackInv, CallHolds
<1>4. CallHolds'
  BY <1>1, <1>2, <1>3, StaysFinished DEF CallHolds, gpuVars
<1>5. polled' \in Nat /\ pending' \in BOOLEAN
  BY <1>1, <1>2, CallIsOn
<1> QED BY <1>1, <1>2, <1>4, <1>5, StagingStays, CallSteps

(* What is unmapped was mapped.                                             *)
LEMMA Unmapped ==
    ASSUME ReadbackInv, step \in Mapped, Unmap(Owner)
    PROVE  /\ buffers' = [buffers EXCEPT ![Owner].mapping = FALSE]
           /\ images' = images /\ outcome' = "ok"
<1>1. Live(Staging) /\ Staging.mapping
  <2>1. step \in Calling
    BY DEF Calling, AllPolled
  <2> QED BY <2>1, CallIsOn DEF ReadbackInv, StagingLives
<1>2. UnmapError(Owner) = "none"
  BY <1>1 DEF UnmapError, Staging
<1> QED BY <1>2 DEF Unmap, Returns

LEMMA AbandonStagingKeeps ==
    ASSUME ReadbackInv, OwnersInv', Accepted', AbandonStaging
    PROVE  ReadbackInv'
<1>1. /\ step = "abandon" /\ step' = "report" /\ Unmap(Owner)
      /\ UNCHANGED <<commandVars, batch, gpuVars, localVars, published>>
  BY DEF AbandonStaging
<1>2. /\ step \in AllPolled /\ step \in Calling /\ step \in Mapped
      /\ step' \notin Mapped /\ step' \in Calling /\ step' # "idle"
  BY <1>1 DEF Calling, AllPolled, Mapped
<1>3. CallHolds'
  BY <1>1, <1>2, StaysFinished DEF CallHolds
<1>4. polled' \in Nat /\ pending' \in BOOLEAN
  BY <1>1, <1>2, CallIsOn DEF localVars
<1>5. /\ buffers' = [buffers EXCEPT ![Owner].mapping = FALSE] /\ images' = images
  BY <1>1, <1>2, Unmapped
<1>6. StagingLives' /\ \A b \in Buffers : Same(buffers[b], buffers'[b])
  BY <1>1, <1>2, <1>5, StagingRemapped
<1> QED BY <1>1, <1>2, <1>3, <1>4, <1>5, <1>6, CallSteps

LEMMA ReportInvalidateKeeps ==
    ASSUME ReadbackInv, OwnersInv', Accepted', ReportInvalidate
    PROVE  ReadbackInv'
<1>1. /\ step = "report" /\ Leave
      /\ UNCHANGED <<buffers, images, commandVars, batch, gpuVars, published>>
  BY DEF ReportInvalidate, ownerVars
<1>2. step \in Calling /\ step \notin Mapped
  BY <1>1 DEF Calling, AllPolled, Mapped
<1> QED BY <1>1, <1>2, LeaveHolds, StagingStays, CallSteps

(* Everything was written by then that tryCopy copies.                      *)
LEMMA CopyOutKeeps ==
    ASSUME ReadbackInv, OwnersInv', Accepted', CopyOut
    PROVE  ReadbackInv'
<1>1. /\ step = "copy" /\ step' = "unmap"
      /\ bytes' = [i \in DOMAIN bytes |-> IF Copied(i) THEN host[i] ELSE bytes[i]]
      /\ UNCHANGED <<buffers, images, commandVars, batch, gpuVars, host, polled, pending, published>>
  BY DEF CopyOut, resourceVars
<1>2. /\ step \in AllPolled /\ step \in Calling /\ step \in Mapped
      /\ step' \in Mapped /\ step' \in Calling /\ step' # "idle"
  BY <1>1 DEF Calling, AllPolled, Mapped
<1>3. /\ bytes = [i \in 0..batch.size - 1 |-> Zero] /\ host = device
      /\ DOMAIN device = 0..batch.size - 1
      /\ \A i \in Written : device[i] = WrittenAt(i)
      /\ batch \in Batches /\ Laid(batch)
  BY <1>1, <1>2, CallIsOn, StaysFinished DEF ReadbackInv, CallHolds, MemoryHolds
<1>4. \A i \in 0..batch.size - 1 : Copied(i) => host[i] = WrittenAt(i)
  <2> TAKE i \in 0..batch.size - 1
  <2> HAVE Copied(i)
  <2>1. i \in Written
    BY <1>3, CopiedIsWritten DEF Written
  <2> QED BY <1>3, <2>1
<1>5. ReadsBack(bytes')
  BY <1>1, <1>3, <1>4 DEF ReadsBack
<1>6. ReadsBack(bytes)'
  BY <1>1, <1>5, BatchStays
<1>7. CallHolds'
  BY <1>1, <1>2, <1>6, StaysFinished DEF CallHolds
<1>8. polled' \in Nat /\ pending' \in BOOLEAN
  BY <1>1, <1>2, CallIsOn
<1> QED BY <1>1, <1>2, <1>7, <1>8, StagingStays, CallSteps

LEMMA UnmapAndReturnKeeps ==
    ASSUME ReadbackInv, OwnersInv', Accepted', UnmapAndReturn
    PROVE  ReadbackInv'
<1>1. /\ step = "unmap" /\ Unmap(Owner) /\ Leave
      /\ published' = (IF outcome' = "ok" THEN bytes ELSE published)
      /\ UNCHANGED <<commandVars, batch, gpuVars>>
  BY DEF UnmapAndReturn
<1>2. step \in AllPolled /\ step \in Calling /\ step \in Mapped
  BY <1>1 DEF Calling, AllPolled, Mapped
<1>3. /\ buffers' = [buffers EXCEPT ![Owner].mapping = FALSE] /\ images' = images
      /\ published' = bytes
  BY <1>1, <1>2, Unmapped
<1>4. step' = "idle" /\ polled' = 0 /\ pending' = FALSE /\ step' \notin Mapped
  BY <1>1 DEF Leave, Mapped
<1>5. StagingLives' /\ \A b \in Buffers : Same(buffers[b], buffers'[b])
  BY <1>1, <1>2, <1>3, <1>4, StagingRemapped
<1>6. ReadsBack(published')
  BY <1>1, <1>3 DEF ReadbackInv, CallHolds
<1>7. ReadsBack(published)'
  BY <1>1, <1>6, BatchStays
<1>8. CallHolds'
  BY <1>4, <1>7 DEF CallHolds, AllPolled, Mapped
<1> QED BY <1>1, <1>2, <1>3, <1>4, <1>5, <1>8, CallSteps

-----------------------------------------------------------------------------
(* The application                                                         *)

LEMMA ReleaseBatchKeeps ==
    ASSUME ReadbackInv, OwnersInv', Accepted', ReleaseBatch
    PROVE  ReadbackInv'
<1>1. /\ step = "idle" /\ step' = "idle" /\ batch' = Null /\ uses' = <<>> /\ recorded' = <<>>
      /\ published' = Null /\ command' = Null /\ UNCHANGED <<polled, pending>>
      /\ buffers' = [buffers EXCEPT ![Owner] = Null]
  BY DEF ReleaseBatch, EndBuffer, localVars
<1>2. polled = 0 /\ pending \in BOOLEAN /\ ~Live(buffers[Local])
  BY <1>1 DEF ReadbackInv, ReadbackTypeOK, StagingLives, Calling, AllPolled, Mapped
<1>3. /\ Local \in Buffers /\ Owner \in Buffers /\ Local # Owner
      /\ buffers \in [Buffers -> BufferImpls \cup {Null}]
  BY ReadbackAssumption DEF ReadbackInv, OwnersInv, ResourcesTypeOK
<1>4. ~Live(buffers[Local])' /\ ~Live(Staging)'
  BY <1>1, <1>2, <1>3 DEF Staging, Live
<1> QED BY <1>1, <1>2, <1>4, Dropped

(* Sources come, go and move, while no recorded command reads them.         *)
LEMMA SourcesChange ==
    ASSUME ReadbackInv, OwnersInv', Accepted', SourceChanges
    PROVE  ReadbackInv'
<1>1. recorded = <<>> /\ UNCHANGED commandVars /\ UNCHANGED readbackVars
  BY DEF SourceChanges
<1>2. buffers \in [Buffers -> BufferImpls \cup {Null}]
  BY DEF ReadbackInv, OwnersInv, ResourcesTypeOK
<1>3. buffers'[Local] = buffers[Local] /\ buffers'[Owner] = buffers[Owner]
  <2>1. \/ buffers' = buffers
        \/ \E b, c \in Sources : \A x \in Buffers \ {b, c} : buffers'[x] = buffers[x]
    <3>1. CASE \/ \E i \in Images, a \in Allocators, d \in ImageDescriptions : CreateImage(i, a, d)
               \/ \E i \in Images : DestroyImage(i)
               \/ \E i, j \in Images : MoveImage(i, j)
      BY <3>1 DEF CreateImage, DestroyImage, MoveImage
    <3>2. CASE \/ \E b \in Sources, a \in Allocators, d \in BufferDescriptions :
                    CreateBuffer(b, a, d)
               \/ \E b \in Sources : DestroyBuffer(b)
               \/ \E b, c \in Sources : MoveBuffer(b, c)
      BY <1>2, <3>2 DEF CreateBuffer, DestroyBuffer, EndBuffer, MoveBuffer, Sources
    <3> QED BY <3>1, <3>2 DEF SourceChanges
  <2> QED BY <2>1, ReadbackAssumption DEF Sources
<1>4. /\ recorded' = recorded /\ recorded' = <<>>
      /\ command' = Null \/ command' \in CommandTypes
  BY <1>1 DEF ReadbackInv, ReadbackTypeOK, commandVars
<1> QED BY <1>1, <1>3, <1>4, NothingRecorded, Elsewhere

(* A call that is refused, and what happens to the command buffer.          *)
LEMMA NothingNew ==
    ASSUME ReadbackInv, OwnersInv', Accepted',
           PrepareRejected \/ TryCopyRejected \/ CommandChanges \/ UNCHANGED vars
    PROVE  ReadbackInv'
<1>1. /\ UNCHANGED <<buffers, images>> /\ UNCHANGED readbackVars
      /\ recorded' = recorded \/ recorded' = <<>>
      /\ \/ command' = command \/ command' = Null
         \/ command # Null /\ command' = [command EXCEPT !.state = "executable"]
         \/ \E d \in Devices, protected \in BOOLEAN :
              command' = [device |-> d, state |-> "recording", protected |-> protected]
  BY DEF PrepareRejected, TryCopyRejected, CommandChanges, BeginCommand, FinishCommand, vars,
         resourceVars, ownerVars, commandVars
<1>2. command' = Null \/ command' \in CommandTypes
  <2>1. command = Null \/ command \in CommandTypes
    BY DEF ReadbackInv, ReadbackTypeOK
  <2> QED BY <1>1, <2>1 DEF CommandTypes
<1>3. batch' = batch /\ \A b \in Buffers : Same(buffers[b], buffers'[b])
  BY <1>1 DEF readbackVars, Same
<1>4. Recording'
  BY <1>1, <1>3, RecordingStays
<1> QED BY <1>1, <1>2, <1>4, Elsewhere

-----------------------------------------------------------------------------
(* What the properties say of the batch                                    *)

LEMMA SpansAre ==
    ASSUME batch \in Batches
    PROVE  /\ DOMAIN Spans = 1..Len(batch.copies) + Len(batch.images)
           /\ \A k \in DOMAIN batch.copies :
                Spans[k] = Cells(batch.copies[k].staging_offset, batch.copies[k].size)
           /\ \A k \in DOMAIN batch.images :
                Spans[Len(batch.copies) + k] =
                  Cells(batch.images[k].region.buffer_offset, batch.images[k].payload)
<1> DEFINE m == Len(batch.copies)
           n == Len(batch.images)
           f == [k \in DOMAIN batch.copies |->
                    Cells(batch.copies[k].staging_offset, batch.copies[k].size)]
           g == [k \in DOMAIN batch.images |->
                    Cells(batch.images[k].region.buffer_offset, batch.images[k].payload)]
           S == {f[k] : k \in 1..m} \cup {g[k] : k \in 1..n}
<1>1. /\ m \in Nat /\ n \in Nat /\ DOMAIN batch.copies = 1..m /\ DOMAIN batch.images = 1..n
  BY EntriesAre
<1>2. Spans = f \o g
  BY DEF Spans
<1>3. /\ \A k \in DOMAIN batch.copies :
           f[k] = Cells(batch.copies[k].staging_offset, batch.copies[k].size)
      /\ \A k \in DOMAIN batch.images :
           g[k] = Cells(batch.images[k].region.buffer_offset, batch.images[k].payload)
      /\ f = [k \in 1..m |-> f[k]] /\ g = [k \in 1..n |-> g[k]]
  BY <1>1
<1>4. /\ \A k \in 1..m : f[k] \in S
      /\ \A k \in 1..n : g[k] \in S
  OBVIOUS
<1> HIDE DEF m, n, f, g, S
<1>5. f \in [1..m -> S] /\ g \in [1..n -> S]
  BY <1>3, <1>4
<1>6. /\ DOMAIN (f \o g) = 1..m + n
      /\ \A k \in 1..m : (f \o g)[k] = f[k]
      /\ \A k \in 1..n : (f \o g)[m + k] = g[k]
  BY <1>1, <1>5, Joined
<1>7. /\ DOMAIN Spans = 1..m + n
      /\ \A k \in DOMAIN batch.copies :
           Spans[k] = Cells(batch.copies[k].staging_offset, batch.copies[k].size)
      /\ \A k \in DOMAIN batch.images :
           Spans[m + k] = Cells(batch.images[k].region.buffer_offset, batch.images[k].payload)
  BY <1>1, <1>2, <1>3, <1>6
<1> QED BY <1>7 DEF m, n

(* A place in a span is one of a copy or of an image.                       *)
LEMMA SpanOfEntry ==
    ASSUME batch \in Batches, NEW j \in DOMAIN Spans
    PROVE  \/ j \in DOMAIN batch.copies /\ \A i \in Spans[j] : InCopy(j, i)
           \/ /\ j - Len(batch.copies) \in DOMAIN batch.images
              /\ \A i \in Spans[j] : InImage(j - Len(batch.copies), i)
<1> DEFINE m == Len(batch.copies)
<1>1. /\ m \in Nat /\ Len(batch.images) \in Nat
      /\ DOMAIN batch.copies = 1..m /\ DOMAIN batch.images = 1..Len(batch.images)
  BY EntriesAre
<1>2. /\ j \in 1..m + Len(batch.images)
      /\ \A k \in DOMAIN batch.copies :
           Spans[k] = Cells(batch.copies[k].staging_offset, batch.copies[k].size)
      /\ \A k \in DOMAIN batch.images :
           Spans[m + k] = Cells(batch.images[k].region.buffer_offset, batch.images[k].payload)
  BY SpansAre
<1> HIDE DEF m
<1>3. CASE j <= m
  <2>1. j \in DOMAIN batch.copies
    BY <1>1, <1>2, <1>3
  <2>2. \A i \in Spans[j] : InCopy(j, i)
    BY <1>2, <2>1 DEF Cells, InCopy
  <2> QED BY <2>1, <2>2
<1>4. CASE ~(j <= m)
  <2>1. j - m \in DOMAIN batch.images /\ m + (j - m) = j
    BY <1>1, <1>2, <1>4
  <2>2. Spans[j] = Cells(batch.images[j - m].region.buffer_offset, batch.images[j - m].payload)
    BY <1>2, <2>1
  <2>3. \A i \in Spans[j] : InImage(j - m, i)
    BY <2>2 DEF Cells, InImage
  <2> QED BY <2>1, <2>3 DEF m
<1> QED BY <1>3, <1>4

LEMMA ReadbackPacked ==
    ASSUME ReadbackInv, batch # Null
    PROVE  /\ \A j, k \in DOMAIN Spans : j # k => Spans[j] \cap Spans[k] = {}
           /\ \A k \in DOMAIN Spans : Spans[k] \subseteq 0..batch.size - 1
<1>1. batch \in Batches /\ Laid(batch)
  BY DEF ReadbackInv, ReadbackTypeOK
<1>2. Len(batch.copies) \in Nat /\ DOMAIN Spans \subseteq Int
  <2>1. Len(batch.copies) \in Nat /\ Len(batch.images) \in Nat
    BY <1>1, EntriesAre
  <2> DEFINE m == Len(batch.copies)
             n == Len(batch.images)
  <2>2. DOMAIN Spans = 1..m + n
    BY <1>1, SpansAre
  <2> HIDE DEF m, n
  <2>3. DOMAIN Spans \subseteq Int
    BY <2>2
  <2> QED BY <2>1, <2>3
<1>3. ASSUME NEW j \in DOMAIN Spans, NEW k \in DOMAIN Spans, NEW i, i \in Spans[j], i \in Spans[k]
      PROVE  j = k
  <2>1. /\ \/ j \in DOMAIN batch.copies /\ InCopy(j, i)
           \/ j - Len(batch.copies) \in DOMAIN batch.images /\ InImage(j - Len(batch.copies), i)
        /\ \/ k \in DOMAIN batch.copies /\ InCopy(k, i)
           \/ k - Len(batch.copies) \in DOMAIN batch.images /\ InImage(k - Len(batch.copies), i)
    BY <1>1, <1>3, SpanOfEntry
  <2>2. j = k \/ j - Len(batch.copies) = k - Len(batch.copies)
    BY <1>1, <2>1, PlacesApart
  <2> QED BY <1>2, <2>2
<1>4. ASSUME NEW k \in DOMAIN Spans, NEW i \in Spans[k]
      PROVE  i \in 0..batch.size - 1
  <2>1. /\ batch.size \in Nat
        /\ \A l \in DOMAIN batch.copies :
             batch.copies[l].staging_offset \in Nat /\ batch.copies[l].size \in Nat
        /\ \A l \in DOMAIN batch.images :
             batch.images[l].region.buffer_offset \in Nat /\ batch.images[l].payload \in Nat
    BY <1>1, EntriesAre
  <2>2. CASE k \in DOMAIN batch.copies /\ InCopy(k, i)
    <3>1. batch.copies[k].staging_offset + batch.copies[k].size <= batch.size
      BY <1>1, <2>2 DEF Laid
    <3> QED BY <2>1, <2>2, <3>1 DEF InCopy
  <2>3. CASE \E l \in DOMAIN batch.images : InImage(l, i)
    <3>1. PICK l \in DOMAIN batch.images : InImage(l, i)
      BY <2>3
    <3>2. batch.images[l].region.buffer_offset + batch.images[l].payload <= batch.size
      BY <1>1 DEF Laid
    <3> QED BY <2>1, <3>1, <3>2 DEF InImage
  <2> QED BY <1>1, <2>2, <2>3, SpanOfEntry
<1> QED BY <1>3, <1>4

(* What one copy left in the bytes that tryCopy returned.                   *)
LEMMA CopyReturned ==
    ASSUME batch \in Batches, Laid(batch), NEW v, ReadsBack(v), NEW k \in DOMAIN batch.copies,
           NEW j \in 0..batch.copies[k].size - 1
    PROVE  v[batch.copies[k].staging_offset + j] =
             <<"buffer", k, batch.copies[k].source_offset + j>>
<1> DEFINE c == batch.copies[k]
           i == c.staging_offset + j
<1>1. /\ c.staging_offset \in Nat /\ c.size \in Nat /\ c.source_offset \in Nat /\ batch.size \in Nat
      /\ c.staging_offset + c.size <= batch.size
  BY EntriesAre DEF Laid
<1> HIDE DEF c
<1>2. /\ i \in c.staging_offset..c.staging_offset + c.size - 1 /\ i \in 0..batch.size - 1
      /\ c.source_offset + i - c.staging_offset = c.source_offset + j
  BY <1>1 DEF c
<1> HIDE DEF i
<1>3. InCopy(k, i)
  BY <1>2 DEF InCopy, c
<1>4. Copied(i)
  BY <1>3 DEF Copied, InCopy
<1>5. v[i] = WrittenAt(i)
  BY <1>2, <1>4 DEF ReadsBack
<1>6. WrittenAt(i) = <<"buffer", k, c.source_offset + i - c.staging_offset>>
  BY <1>3, WrittenInCopy DEF c
<1> QED BY <1>2, <1>5, <1>6 DEF i, c

LEMMA ImageReturned ==
    ASSUME batch \in Batches, Laid(batch), NEW v, ReadsBack(v), NEW k \in DOMAIN batch.images,
           NEW x \in 0..batch.images[k].region.width - 1,
           NEW y \in 0..batch.images[k].region.height - 1, NEW b \in 0..Texel - 1
    PROVE  LET r == batch.images[k].region
           IN  v[r.buffer_offset + (y * RowTexels(r) + x) * Texel + b] =
                 <<"image", k, r.x + x, r.y + y, b>>
<1> DEFINE u == batch.images[k]
           r == u.region
           rest == x * 4 + b
           i == PlaceOf(u, y, rest)
<1>1. /\ r \in Regions /\ u.payload \in Nat /\ Shaped(u) /\ batch.size \in Nat
      /\ r.buffer_offset + u.payload <= batch.size /\ r.buffer_offset \in Nat
  BY EntriesAre DEF Laid
<1>2. r.width \in Nat /\ r.height \in Nat /\ RowTexels(r) \in Nat /\ r.x \in Int /\ r.y \in Int
  BY <1>1 DEF Regions, RowTexels
<1>3. /\ x \in Nat /\ y \in Nat /\ b \in Nat /\ b < 4 /\ x < r.width
  BY <1>2 DEF Texel
<1> HIDE DEF u
<1>4. /\ rest \in 0..r.width * Texel - 1 /\ rest \div Texel = x /\ rest % Texel = b
  BY <1>2, <1>3 DEF Texel
<1>5. i = r.buffer_offset + (y * RowTexels(r) + x) * Texel + b
  <2> DEFINE product == y * RowTexels(r)
  <2>1. product \in Nat
    BY <1>2, <1>3
  <2>2. y * PitchOf(u) = product * 4
    BY <1>2, <1>3 DEF PitchOf, Texel
  <2> HIDE DEF product
  <2>3. r.buffer_offset + product * 4 + (x * 4 + b) = r.buffer_offset + (product + x) * 4 + b
    BY <1>1, <1>3, <2>1
  <2> QED BY <2>2, <2>3 DEF PlaceOf, Texel, product
<1>6. /\ InImage(k, i)
      /\ WrittenAt(i) = <<"image", k, r.x + rest \div Texel, r.y + y, rest % Texel>>
  BY <1>4, WrittenInImage DEF u
<1>7. i \in 0..batch.size - 1
  <2>1. i \in r.buffer_offset..r.buffer_offset + u.payload - 1
    BY <1>6 DEF InImage, u
  <2> HIDE DEF i, r
  <2> QED BY <1>1, <2>1 DEF r
<1>8. Copied(i)
  <2> DEFINE first == r.buffer_offset + y * RowTexels(r) * Texel
  <2>1. i \in first..first + r.width * Texel - 1
    <3>1. y * RowTexels(r) * Texel = y * PitchOf(u) /\ y * PitchOf(u) \in Nat
      BY <1>2, <1>3 DEF PitchOf, Texel
    <3>2. first \in Nat /\ i = first + rest /\ r.width * Texel \in Nat
      BY <1>1, <1>2, <3>1 DEF PlaceOf, Texel
    <3> HIDE DEF first, i, rest
    <3> QED BY <1>4, <3>2
  <2> QED BY <2>1 DEF Copied, u
<1>9. v[i] = WrittenAt(i)
  BY <1>7, <1>8 DEF ReadsBack
<1> HIDE DEF i, rest
<1>10. v[i] = <<"image", k, r.x + x, r.y + y, b>>
  BY <1>4, <1>6, <1>9
<1> QED BY <1>5, <1>10 DEF u

(* A recorded command is one of the batch, whose sources can still be read, *)
(* or one of the application.                                               *)
LEMMA RecordedIs ==
    ASSUME ReadbackInv, NEW n \in DOMAIN recorded, NEW c \in Range(recorded[n])
    PROVE  \/ Readable /\ batch # Null /\ \E k \in DOMAIN batch.copies : c = BufferCommands[k]
           \/ Readable /\ batch # Null /\ \E k \in DOMAIN batch.images : c = ImageCommands[k]
           \/ \E barriers \in Barriers : c = [barriers |-> barriers]
           \/ \E i, j \in Images, r \in ImageCopies :
                /\ Live(images[i]) /\ InsideMip(images[i].config, r.src)
                /\ Live(images[j]) /\ InsideMip(images[j].config, r.dst)
                /\ c = OwnCopy(i, j, r)
<1>1. Recorded(recorded[n]) /\ recorded # <<>>
  BY DEF ReadbackInv, Recording
<1>2. batch # Null /\ batch \in Batches
  BY <1>1 DEF ReadbackInv, ReadbackTypeOK
<1>3. PICK j \in DOMAIN recorded[n] : c = recorded[n][j]
  BY DEF Range
<1>4. CASE Readable /\ recorded[n] = BufferCommands \o ImageCommands
  <2> DEFINE p == Len(batch.copies)
             q == Len(batch.images)
             S == {BufferCommands[k] : k \in 1..p} \cup {ImageCommands[k] : k \in 1..q}
             all == BufferCommands \o ImageCommands
  <2>1. /\ p \in Nat /\ q \in Nat /\ DOMAIN batch.copies = 1..p /\ DOMAIN batch.images = 1..q
    BY <1>2, EntriesAre
  <2>2. /\ BufferCommands = [k \in 1..p |-> BufferCommands[k]]
        /\ ImageCommands = [k \in 1..q |-> ImageCommands[k]]
    BY <2>1 DEF BufferCommands, ImageCommands
  <2>3. /\ \A k \in 1..p : BufferCommands[k] \in S
        /\ \A k \in 1..q : ImageCommands[k] \in S
    OBVIOUS
  <2> HIDE DEF p, q, S, all
  <2>4. BufferCommands \in [1..p -> S] /\ ImageCommands \in [1..q -> S]
    BY <2>2, <2>3
  <2>5. /\ DOMAIN all = 1..p + q
        /\ \A k \in 1..p : all[k] = BufferCommands[k]
        /\ \A k \in 1..q : all[p + k] = ImageCommands[k]
    BY <2>1, <2>4, Joined DEF all
  <2>6. j \in 1..p + q /\ c = all[j]
    BY <1>3, <1>4, <2>5 DEF all
  <2>7. CASE j <= p
    BY <1>2, <1>4, <2>1, <2>5, <2>6, <2>7
  <2>8. CASE ~(j <= p)
    <3>1. j - p \in 1..q /\ p + (j - p) = j
      BY <2>1, <2>6, <2>8
    <3> QED BY <1>2, <1>4, <2>1, <2>5, <2>6, <3>1
  <2> QED BY <2>7, <2>8
<1>5. CASE \E barriers \in Barriers : recorded[n] = <<[barriers |-> barriers]>>
  BY <1>3, <1>5
<1>6. CASE \E i, k \in Images, r \in ImageCopies :
             /\ Live(images[i]) /\ InsideMip(images[i].config, r.src)
             /\ Live(images[k]) /\ InsideMip(images[k].config, r.dst)
             /\ recorded[n] = <<OwnCopy(i, k, r)>>
  <2>1. PICK i \in Images, k \in Images, r \in ImageCopies :
             /\ Live(images[i]) /\ InsideMip(images[i].config, r.src)
             /\ Live(images[k]) /\ InsideMip(images[k].config, r.dst)
             /\ recorded[n] = <<OwnCopy(i, k, r)>>
    BY <1>6
  <2>2. c = OwnCopy(i, k, r)
    BY <1>3, <2>1
  <2> QED BY <2>1, <2>2
<1> QED BY <1>1, <1>4, <1>5, <1>6 DEF Recorded

(* Only the implementation in a wrapper owns its native object.             *)
LEMMA OwnerIsFound ==
    ASSUME ReadbackInv
    PROVE  /\ \A b \in Buffers : Live(buffers[b]) =>
                BufferOf(buffers[b].handle) = buffers[b] /\ buffers[b].config.size \in Nat
           /\ \A i \in Images : Live(images[i]) =>
                /\ ImageOf(images[i].handle) = images[i]
                /\ images[i].config \in ImageDescriptions /\ images[i].config.refused = "none"
<1>1. ASSUME NEW b \in Buffers, Live(buffers[b])
      PROVE  BufferOf(buffers[b].handle) = buffers[b] /\ buffers[b].config.size \in Nat
  <2>1. \A c \in Buffers : Live(buffers[c]) /\ buffers[c].handle = buffers[b].handle => c = b
    BY <1>1 DEF ReadbackInv, OwnersInv, OneOwnerEach
  <2>2. \A x \in {buffers[c] : c \in Buffers} :
          Live(x) /\ x.handle = buffers[b].handle <=> x = buffers[b]
    BY <1>1, <2>1
  <2>3. BufferOf(buffers[b].handle) = buffers[b]
    BY <2>2 DEF BufferOf
  <2>4. buffers[b] \in BufferImpls
    BY <1>1, BufferStands DEF ReadbackInv
  <2> QED BY <2>3, <2>4, ResourcesAssumption DEF BufferImpls, BufferConfigs, Sizes
<1>2. ASSUME NEW i \in Images, Live(images[i])
      PROVE  /\ ImageOf(images[i].handle) = images[i]
             /\ images[i].config \in ImageDescriptions /\ images[i].config.refused = "none"
  <2>1. \A j \in Images : Live(images[j]) /\ images[j].handle = images[i].handle => j = i
    BY <1>2 DEF ReadbackInv, OwnersInv, OneOwnerEach
  <2>2. \A x \in {images[j] : j \in Images} :
          Live(x) /\ x.handle = images[i].handle <=> x = images[i]
    BY <1>2, <2>1
  <2>3. ImageOf(images[i].handle) = images[i]
    BY <2>2 DEF ImageOf
  <2>4. images[i] \in ImageImpls /\ images[i].config.refused = "none"
    BY <1>2, ImageStands DEF ReadbackInv, Accepted
  <2> QED BY <2>3, <2>4 DEF ImageImpls
<1> QED BY <1>1, <1>2

LEMMA ImageReadInside ==
    ASSUME ReadbackInv, NEW i \in Images, Live(images[i]), NEW r \in Regions,
           InsideMip(images[i].config, r)
    PROVE  InMip(ImageOf(images[i].handle), r)
<1>1. /\ ImageOf(images[i].handle) = images[i] /\ images[i].config \in ImageDescriptions
      /\ images[i].config.refused = "none"
  BY OwnerIsFound
<1> DEFINE config == images[i].config
<1>2. /\ Cells(r.x, r.width) \subseteq Cells(0, LevelSize(config.width, r.mip))
      /\ Cells(r.y, r.height) \subseteq Cells(0, LevelSize(config.height, r.mip))
  BY <1>1, RegionInside
<1> QED BY <1>1, <1>2 DEF InMip, MipTexels

LEMMA CopyRead ==
    ASSUME ReadbackInv, Readable, batch # Null, NEW k \in DOMAIN batch.copies
    PROVE  /\ Buffer(batch.copies[k].source).handle = batch.copies[k].expected
           /\ Cells(batch.copies[k].source_offset, batch.copies[k].size)
                \subseteq Cells(0, BufferOf(batch.copies[k].expected).config.size)
<1> DEFINE c == batch.copies[k]
<1>1. batch \in Batches
  BY DEF ReadbackInv, ReadbackTypeOK
<1>2. c.source_offset \in Nat /\ c.size \in Nat /\ c.source \in Buffers \cup {Null}
  BY <1>1, EntriesAre
<1>3. /\ Live(Buffer(c.source)) /\ Buffer(c.source).handle = c.expected
      /\ Within(Buffer(c.source).config.size, c.source_offset, c.size)
  BY DEF Readable
<1> HIDE DEF c
<1>4. c.source \in Buffers /\ Buffer(c.source) = buffers[c.source]
  BY <1>2, <1>3 DEF Buffer, Live
<1>5. /\ BufferOf(c.expected) = buffers[c.source] /\ buffers[c.source].config.size \in Nat
  BY <1>3, <1>4, OwnerIsFound
<1>6. Cells(c.source_offset, c.size) \subseteq Cells(0, BufferOf(c.expected).config.size)
  BY <1>2, <1>3, <1>4, <1>5, CellsInside
<1> QED BY <1>3, <1>6 DEF c

LEMMA ImageRead ==
    ASSUME ReadbackInv, Readable, batch # Null, NEW k \in DOMAIN batch.images
    PROVE  /\ Image(batch.images[k].source).handle = batch.images[k].image
           /\ InMip(ImageOf(batch.images[k].image), batch.images[k].region)
<1> DEFINE u == batch.images[k]
<1>1. batch \in Batches
  BY DEF ReadbackInv, ReadbackTypeOK
<1>2. u.region \in Regions /\ u.source \in Images \cup {Null}
  BY <1>1, EntriesAre
<1>3. /\ Live(Image(u.source)) /\ Image(u.source).handle = u.image
      /\ InsideMip(Image(u.source).config, u.region)
  BY DEF Readable
<1> HIDE DEF u
<1>4. u.source \in Images /\ Image(u.source) = images[u.source]
  BY <1>2, <1>3 DEF Image, Live
<1>5. InMip(ImageOf(u.image), u.region)
  BY <1>2, <1>3, <1>4, ImageReadInside
<1> QED BY <1>3, <1>5 DEF u

-----------------------------------------------------------------------------
(* The theorems                                                            *)

LEMMA ReadbackInitHolds == Init => ReadbackInv
<1> SUFFICES ASSUME Init PROVE ReadbackInv
  OBVIOUS
<1>1. OwnersInv /\ Accepted /\ ~Live(buffers[Local]) /\ ~Live(Staging)
  BY ReadbackAssumption
  DEF Init, ResourcesInit, OwnersInv, ResourcesTypeOK, OneOwnerEach, Balanced, Owned, Live,
      Accepted, Staging
<1>2. /\ step = "idle" /\ batch = Null /\ uses = <<>> /\ recorded = <<>> /\ command = Null
      /\ polled = 0 /\ pending = FALSE /\ published = Null
  BY DEF Init, TransferInit
<1>3. ReadbackTypeOK
  <2>1. uses \in Seq(Submissions)
    <3>1. <<>> \in Seq(Submissions)
      OBVIOUS
    <3> QED BY <1>2, <3>1
  <2>2. step \notin Preparing /\ step \notin Calling
    BY <1>2 DEF Preparing, Calling, AllPolled, Mapped
  <2>3. polled \in Nat /\ pending \in BOOLEAN /\ step = "idle"
    BY <1>2
  <2>4. step # "items"
    BY <1>2
  <2> QED BY <1>2, <2>1, <2>2, <2>3, <2>4 DEF ReadbackTypeOK
<1>4. StagingLives
  BY <1>1, <1>2 DEF StagingLives, Preparing, Mapped
<1>5. BuffersFirst /\ MemoryHolds /\ CallHolds /\ Recording
  BY <1>1, <1>2
  DEF BuffersFirst, MemoryHolds, CallHolds, Recording, Finished, AllPolled, Mapped
<1> QED BY <1>1, <1>2, <1>3, <1>4, <1>5 DEF ReadbackInv

LEMMA ReadbackStepKeeps == ReadbackInv /\ [Next]_vars => ReadbackInv'
<1> SUFFICES ASSUME ReadbackInv, [Next]_vars PROVE ReadbackInv'
  OBVIOUS
<1>1. OwnersInv' /\ Accepted'
  BY ReadbackOwnersKeep
<1>2. CASE PrepareBegins
  BY <1>1, <1>2, PrepareBeginsKeeps
<1>3. CASE PrepareBuffer
  BY <1>1, <1>3, PrepareBufferKeeps
<1>4. CASE PrepareImage
  BY <1>1, <1>4, PrepareImageKeeps
<1>5. CASE CreateStaging
  BY <1>1, <1>5, CreateStagingKeeps
<1>6. CASE PrepareInspects
  BY <1>1, <1>6, PrepareInspectsKeeps
<1>7. CASE RecordReadback \/ RecordOwn
  BY <1>1, <1>7, RecordingKeeps
<1>8. CASE TryCopy
  BY <1>1, <1>8, TryCopyKeeps
<1>9. CASE \E n \in 1..MaxUses : PollAnswers(n)
  BY <1>1, <1>9, PollAnswersKeeps
<1>10. CASE PollFails \/ PolledAll
  BY <1>1, <1>10, PollEndsKeeps
<1>11. CASE MapStaging
  BY <1>1, <1>11, MapStagingKeeps
<1>12. CASE InvalidateStaging
  BY <1>1, <1>12, InvalidateStagingKeeps
<1>13. CASE CopyOut
  BY <1>1, <1>13, CopyOutKeeps
<1>14. CASE UnmapAndReturn
  BY <1>1, <1>14, UnmapAndReturnKeeps
<1>15. CASE AbandonStaging \/ ReportInvalidate
  BY <1>1, <1>15, AbandonStagingKeeps, ReportInvalidateKeeps
<1>16. CASE Gpu
  BY <1>1, <1>16, GpuKeeps
<1>17. CASE SubmitUse
  BY <1>1, <1>17, SubmitUseKeeps
<1>18. CASE ReleaseBatch
  BY <1>1, <1>18, ReleaseBatchKeeps
<1>19. CASE SourceChanges
  BY <1>1, <1>19, SourcesChange
<1>20. CASE PrepareRejected \/ TryCopyRejected \/ CommandChanges \/ UNCHANGED vars
  BY <1>1, <1>20, NothingNew
<1> QED BY <1>2, <1>3, <1>4, <1>5, <1>6, <1>7, <1>8, <1>9, <1>10, <1>11, <1>12, <1>13, <1>14,
           <1>15, <1>16, <1>17, <1>18, <1>19, <1>20
        DEF Next, Prepare, CopyCompleted, Application

LEMMA ReadbackInvariance == Spec => []ReadbackInv
BY ReadbackInitHolds, ReadbackStepKeeps, PTL DEF Spec

(* No item shares a byte of the staging buffer with another, and texels     *)
(* start at a multiple of four, whatever the sizes of the buffer ranges     *)
(* before them (the padding and the sums of prepareReadbackBatch()).        *)
THEOREM ReadbackIsPacked == Spec => []PackedReadback
<1>1. ReadbackInv => PackedReadback
  <2> SUFFICES ASSUME ReadbackInv, batch # Null PROVE PackedReadback
    BY DEF PackedReadback
  <2>1. \A k \in DOMAIN batch.images : batch.images[k].region.buffer_offset % 4 = 0
    BY DEF ReadbackInv, Laid
  <2>2. Live(Staging) => Staging.config.size = batch.size
    BY DEF ReadbackInv, StagingLives
  <2> QED BY <2>1, <2>2, ReadbackPacked DEF PackedReadback
<1> QED BY <1>1, ReadbackInvariance, PTL

(* "Prevalidate the ENTIRE batch before any native vkCmdCopyBuffer2": no    *)
(* native call of recordReadbackBatch() can fail after its validation, and  *)
(* none of a recording call of the application is recorded in part.         *)
THEOREM NoReadbackIsRecordedInPart == Spec => NeverPartial
<1>1. ReadbackInv /\ [Next]_vars => [recorded' \notin {recorded, <<>>} => outcome' = "ok"]_vars
  <2> SUFFICES ASSUME ReadbackInv, Next, recorded' \notin {recorded, <<>>}
               PROVE  outcome' = "ok"
    BY DEF vars, commandVars
  <2>1. CASE RecordReadback \/ RecordOwn
    BY <2>1, RecordsWhole, RecordsOwn
  <2>2. CASE Prepare
    BY <2>2
    DEF Prepare, PrepareRejected, PrepareBegins, PrepareBuffer, PrepareImage, CreateStaging,
        PrepareInspects, PrepareAccepts, commandVars
  <2>3. CASE CopyCompleted
    BY <2>3
    DEF CopyCompleted, TryCopyRejected, TryCopy, PollAnswers, PollFails, PolledAll, MapStaging,
        InvalidateStaging, CopyOut, UnmapAndReturn, AbandonStaging, ReportInvalidate, commandVars
  <2>4. CASE Gpu
    BY <2>4 DEF Gpu, GpuStarts, GpuCompletes, DeviceLost, commandVars
  <2>5. CASE Application
    BY <2>5
    DEF Application, SubmitUse, ReleaseBatch, SourceChanges, CommandChanges, BeginCommand,
        FinishCommand, commandVars
  <2> QED BY <2>1, <2>2, <2>3, <2>4, <2>5 DEF Next
<1> QED BY <1>1, ReadbackInvariance, PTL DEF Spec, NeverPartial

(* tryCopyCompletedReadbackBatch() returns bytes only once every use of the *)
(* batch has completed, and these are, byte by byte, what the items name:   *)
(* nothing the GPU had left undefined, and zero where no item is.           *)
THEOREM OnlyWrittenBytesArePublished == Spec => []PublishesWhatTheGpuWrote
<1>1. ReadbackInv => PublishesWhatTheGpuWrote
  <2> SUFFICES ASSUME ReadbackInv, step = "idle", published # Null
               PROVE  PublishesWhatTheGpuWrote
    BY DEF PublishesWhatTheGpuWrote
  <2>1. batch # Null /\ batch \in Batches /\ Laid(batch) /\ ReadsBack(published)
    BY DEF ReadbackInv, ReadbackTypeOK, CallHolds
  <2>2. DOMAIN published = 0..batch.size - 1
    BY <2>1 DEF ReadsBack
  <2>3. DOMAIN device = 0..batch.size - 1
    BY <2>1 DEF ReadbackInv, StagingLives, MemoryHolds, Preparing
  <2>4. \A i \in DOMAIN published : published[i] # Zero => i \in Written
    <3> SUFFICES ASSUME NEW i \in DOMAIN published, published[i] # Zero PROVE i \in Written
      OBVIOUS
    <3>1. Copied(i)
      BY <2>1, <2>2 DEF ReadsBack
    <3> QED BY <2>1, <2>2, <2>3, <3>1, CopiedIsWritten DEF Written
  <2>5. \A k \in DOMAIN batch.copies : \A j \in 0..batch.copies[k].size - 1 :
          published[batch.copies[k].staging_offset + j] =
            <<"buffer", k, batch.copies[k].source_offset + j>>
    BY <2>1, CopyReturned
  <2>6. \A k \in DOMAIN batch.images :
          LET r == batch.images[k].region IN
          \A x \in 0..r.width - 1, y \in 0..r.height - 1, b \in 0..Texel - 1 :
             published[r.buffer_offset + (y * RowTexels(r) + x) * Texel + b] =
                 <<"image", k, r.x + x, r.y + y, b>>
    BY <2>1, ImageReturned
  <2> QED BY <2>2, <2>4, <2>5, <2>6 DEF PublishesWhatTheGpuWrote
<1> QED BY <1>1, ReadbackInvariance, PTL

(* Every command that recordReadbackBatch() recorded still reads what its   *)
(* item named at prepare and writes where tryCopy will look for it, and     *)
(* recordCopyImage() leaves neither image, at any mip level.                *)
THEOREM RecordedReadsAreLegal == Spec => []RecordedReadsAreValid
<1>1. ReadbackInv => RecordedReadsAreValid
  <2> SUFFICES ASSUME ReadbackInv PROVE RecordedReadsAreValid
    OBVIOUS
  <2> DEFINE Valid(c) ==
        /\ c.dst = Staging.handle
        /\ IF c.item[1] = "buffer"
             THEN LET e == batch.copies[c.item[2]] IN
                  /\ c.src = e.expected
                  /\ c.region = [src_offset |-> e.source_offset, dst_offset |-> e.staging_offset,
                                 size |-> e.size]
                  /\ Cells(e.source_offset, e.size) \subseteq Cells(0, BufferOf(c.src).config.size)
             ELSE LET e == batch.images[c.item[2]] IN
                  /\ c.src = e.image /\ c.region = e.region /\ c.layout = e.layout
                  /\ InMip(ImageOf(c.src), e.region)
  <2>1. ASSUME NEW n \in DOMAIN recorded, NEW c \in Range(recorded[n]), "item" \in DOMAIN c
        PROVE  Valid(c)
    <3>1. /\ \A barriers \in Barriers : c # [barriers |-> barriers]
          /\ \A i, j \in Images, r \in ImageCopies : c # OwnCopy(i, j, r)
      BY <2>1 DEF OwnCopy
    <3>2. CASE Readable /\ batch # Null /\ \E k \in DOMAIN batch.copies : c = BufferCommands[k]
      <4>1. PICK k \in DOMAIN batch.copies : c = BufferCommands[k]
        BY <3>2
      <4>2. /\ c.item[1] = "buffer" /\ c.item[2] = k /\ c.dst = Staging.handle
            /\ c.src = Buffer(batch.copies[k].source).handle
            /\ c.region = [src_offset |-> batch.copies[k].source_offset,
                           dst_offset |-> batch.copies[k].staging_offset,
                           size |-> batch.copies[k].size]
        BY <4>1 DEF BufferCommands
      <4> QED BY <3>2, <4>2, CopyRead
    <3>3. CASE Readable /\ batch # Null /\ \E k \in DOMAIN batch.images : c = ImageCommands[k]
      <4>1. PICK k \in DOMAIN batch.images : c = ImageCommands[k]
        BY <3>3
      <4>2. /\ c.item[1] # "buffer" /\ c.item[2] = k /\ c.dst = Staging.handle
            /\ c.src = Image(batch.images[k].source).handle
            /\ c.layout = batch.images[k].layout /\ c.region = batch.images[k].region
        BY <4>1 DEF ImageCommands
      <4> QED BY <3>3, <4>2, ImageRead
    <3> QED BY <3>1, <3>2, <3>3, RecordedIs
  <2>2. ASSUME NEW n \in DOMAIN recorded, NEW c \in Range(recorded[n]),
               DOMAIN c = {"src", "dst", "region"}
        PROVE  InMip(ImageOf(c.src), c.region.src) /\ InMip(ImageOf(c.dst), c.region.dst)
    <3>1. \A k : c # [barriers |-> k]
      BY <2>2
    <3>2. /\ \A k \in DOMAIN batch.copies : c # BufferCommands[k]
          /\ \A k \in DOMAIN batch.images : c # ImageCommands[k]
      <4>1. /\ \A k \in DOMAIN batch.copies : "item" \in DOMAIN BufferCommands[k]
            /\ \A k \in DOMAIN batch.images : "item" \in DOMAIN ImageCommands[k]
        BY DEF BufferCommands, ImageCommands
      <4>2. "item" \notin DOMAIN c
        BY <2>2
      <4> QED BY <4>1, <4>2
    <3>3. PICK i \in Images, j \in Images, r \in ImageCopies :
            /\ Live(images[i]) /\ InsideMip(images[i].config, r.src)
            /\ Live(images[j]) /\ InsideMip(images[j].config, r.dst)
            /\ c = OwnCopy(i, j, r)
      BY <3>1, <3>2, RecordedIs
    <3>4. c.src = images[i].handle /\ c.dst = images[j].handle /\ c.region = r
      BY <3>3 DEF OwnCopy
    <3>5. r.src \in Regions /\ r.dst \in Regions
      BY ReadbackAssumption
    <3> QED BY <3>3, <3>4, <3>5, ImageReadInside
  <2> QED BY <2>1, <2>2 DEF RecordedReadsAreValid, OfBatch, OwnCopies
<1> QED BY <1>1, ReadbackInvariance, PTL

=============================================================================

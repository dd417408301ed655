----------------------------- MODULE UploadProofs -----------------------------
(***************************************************************************)
(* Proofs about UploadBatch for any wrappers, handles, allocators, devices *)
(* and descriptions, any number of items, and any largest size.            *)
(***************************************************************************)
EXTENDS UploadBatch, ResourcesProofs

(***************************************************************************)
(* The inductive invariant: what prepare's local buffer and the batch's    *)
(* buffer are at every step, that the entries are the items of the         *)
(* description, that their spans follow one another, what the memory       *)
(* holds, and that what was recorded passes the checks of                  *)
(* recordUploadBatch() as long as it stays recorded.                       *)
(***************************************************************************)

\* prepare has its local Buffer.
Holding == {"map", "write", "flush", "unmap", "publish", "unwind"}

\* There are arguments, entries and memory to speak of.
InUse == step # "idle" \/ Live(Staging)

UploadTypeOK ==
    /\ step \in {"idle", "items"} \cup Holding
    /\ batch \in BOOLEAN
    /\ InUse => allocator \in Allocators /\ description \in Descriptions
    /\ ~InUse => ~batch /\ copies = <<>> /\ uploads = <<>> /\ staging_bytes = 0
    /\ staging_bytes \in Sizes

LocalLives ==
    /\ Live(buffers[Local]) <=> step \in Holding
    /\ step \in Holding => buffers[Local].config = StagingDescription
    /\ step \in {"write", "flush", "unmap"} => buffers[Local].mapping
    /\ step \in {"map", "publish"} => ~buffers[Local].mapping

OwnerLives ==
    /\ batch => Live(Staging)
    /\ Live(Staging) => /\ step = "idle" /\ ~Staging.mapping
                        /\ Staging.config = StagingDescription

PreparedBufferUploads ==
    [destination : Buffers \cup {Null}, staging_offset : Nat, destination_offset : Nat, size : Nat]

PreparedImageUploads ==
    [destination : Images \cup {Null}, image : Handles, layout : STRING, region : Regions,
     bytes : Nat]

\* The k-th entry is that of the k-th item.
IsCopyOf(c, w) ==
    c.destination = w.destination /\ c.destination_offset = w.offset /\ c.size = w.bytes

IsUploadOf(u, w) ==
    /\ u.destination = w.destination /\ u.layout = w.layout /\ u.bytes = w.bytes
    /\ u.region = [w.region EXCEPT !.buffer_offset = u.region.buffer_offset]

EntriesOfItems ==
    /\ copies \in Seq(PreparedBufferUploads) /\ uploads \in Seq(PreparedImageUploads)
    /\ InUse =>
         /\ Len(copies) <= Len(description.buffers) /\ Len(uploads) <= Len(description.images)
         /\ \A k \in DOMAIN copies : IsCopyOf(copies[k], description.buffers[k])
         /\ \A k \in DOMAIN uploads : IsUploadOf(uploads[k], description.images[k])
         /\ uploads # <<>> => Len(copies) = Len(description.buffers)
    /\ step \in Holding \/ Live(Staging) => ItemsPrepared

\* Spans that follow one another up to total.
Contiguous(spans, total) ==
    /\ \A k \in DOMAIN spans :
         /\ spans[k].offset % 4 = 0 /\ spans[k].size % 4 = 0
         /\ spans[k].offset = (IF k = 1 THEN 0 ELSE spans[k - 1].offset + spans[k - 1].size)
         /\ spans[k].offset + spans[k].size <= total
    /\ \A j, k \in DOMAIN spans : j < k => spans[j].offset + spans[j].size <= spans[k].offset
    /\ total = IF Len(spans) = 0 THEN 0
               ELSE spans[Len(spans)].offset + spans[Len(spans)].size

MemoryHolds ==
    /\ step \in {"flush", "unmap", "publish"} \/ Live(Staging) =>
         host = [i \in 0..staging_bytes - 1 |-> Packed(i)]
    /\ step \in {"unmap", "publish"} \/ Live(Staging) => device = host

\* What recordUploadBatch() finds of the entries before it records.
Recordable ==
    /\ \A k \in DOMAIN copies : CopyEntryError(copies[k]) = "none"
    /\ \A k \in DOMAIN uploads : \E d \in Devices : ImageEntryError(d, uploads[k]) = "none"
    /\ PairError = "none" /\ ImagePairError = "none"

Recording ==
    /\ recorded \in Seq({BufferCommands \o ImageCommands})
    /\ recorded # <<>> => Live(Staging) /\ Recordable

UploadInv ==
    /\ OwnersInv /\ Accepted
    /\ UploadTypeOK /\ LocalLives /\ OwnerLives /\ EntriesOfItems
    /\ Contiguous(Spans, staging_bytes)
    /\ MemoryHolds /\ Recording

-----------------------------------------------------------------------------
(* Spans                                                                   *)

SpanOf(offset, size) == [offset |-> offset, size |-> size]
SpanTypes == [offset : Nat, size : Nat]

SpansOf(cs, us) ==
    [k \in DOMAIN cs |-> SpanOf(cs[k].staging_offset, cs[k].size)] \o
    [k \in DOMAIN us |-> SpanOf(us[k].region.buffer_offset, us[k].bytes)]

(* The spans of the copies come before those of the uploads.                *)
LEMMA SpansAre ==
    ASSUME NEW cs \in Seq(PreparedBufferUploads), NEW us \in Seq(PreparedImageUploads)
    PROVE  /\ SpansOf(cs, us) \in Seq(SpanTypes)
           /\ Len(SpansOf(cs, us)) = Len(cs) + Len(us)
           /\ \A k \in DOMAIN cs :
                SpansOf(cs, us)[k] = SpanOf(cs[k].staging_offset, cs[k].size)
           /\ \A k \in DOMAIN us :
                SpansOf(cs, us)[Len(cs) + k] = SpanOf(us[k].region.buffer_offset, us[k].bytes)
<1> DEFINE m == Len(cs)
           n == Len(us)
           first == [k \in DOMAIN cs |-> SpanOf(cs[k].staging_offset, cs[k].size)]
           second == [k \in DOMAIN us |-> SpanOf(us[k].region.buffer_offset, us[k].bytes)]
<1>0. DOMAIN cs = 1..m /\ DOMAIN us = 1..n /\ m \in Nat /\ n \in Nat
  OBVIOUS
<1>1. first \in Seq(SpanTypes) /\ Len(first) = m
  <2>1. \A k \in 1..m : first[k] \in SpanTypes
    <3> SUFFICES ASSUME NEW k \in 1..m PROVE first[k] \in SpanTypes
      OBVIOUS
    <3>1. cs[k] \in PreparedBufferUploads
      OBVIOUS
    <3> QED BY <3>1 DEF PreparedBufferUploads, SpanTypes, SpanOf
  <2>2. first \in [1..m -> SpanTypes]
    BY <1>0, <2>1
  <2> HIDE DEF first, m
  <2> QED BY <1>0, <2>2
<1>2. second \in Seq(SpanTypes) /\ Len(second) = n
  <2>1. \A k \in 1..n : second[k] \in SpanTypes
    <3> SUFFICES ASSUME NEW k \in 1..n PROVE second[k] \in SpanTypes
      OBVIOUS
    <3>1. us[k] \in PreparedImageUploads
      OBVIOUS
    <3>2. us[k].region.buffer_offset \in Nat /\ us[k].bytes \in Nat
      BY <3>1 DEF PreparedImageUploads, Regions
    <3> QED BY <3>2 DEF SpanTypes, SpanOf
  <2>2. second \in [1..n -> SpanTypes]
    BY <1>0, <2>1
  <2> HIDE DEF second, n
  <2> QED BY <1>0, <2>2
<1>3. SpansOf(cs, us) = first \o second
  BY DEF SpansOf
<1>4. \A k \in 1..m : first[k] = SpanOf(cs[k].staging_offset, cs[k].size)
  OBVIOUS
<1>5. \A k \in 1..n : second[k] = SpanOf(us[k].region.buffer_offset, us[k].bytes)
  OBVIOUS
<1> HIDE DEF first, second, m, n
<1>6. /\ first \o second \in Seq(SpanTypes) /\ Len(first \o second) = m + n
      /\ \A k \in 1..m : (first \o second)[k] = first[k]
      /\ \A k \in 1..n : (first \o second)[m + k] = second[k]
  BY <1>0, <1>1, <1>2
<1> QED BY <1>0, <1>3, <1>4, <1>5, <1>6 DEF m, n

LEMMA SpansTyped ==
    ASSUME EntriesOfItems
    PROVE  Spans \in Seq(SpanTypes)
<1>1. Spans = SpansOf(copies, uploads)
  BY DEF Spans, SpansOf, SpanOf
<1> QED BY <1>1, SpansAre DEF EntriesOfItems

LEMMA SameSequence ==
    ASSUME NEW S, NEW s \in Seq(S), NEW t \in Seq(S), Len(s) = Len(t),
           \A k \in 1..Len(s) : s[k] = t[k]
    PROVE  s = t
OBVIOUS

(* The next copy adds the last span, as long as there are no uploads.       *)
LEMMA CopyAddsSpan ==
    ASSUME NEW cs \in Seq(PreparedBufferUploads), NEW c \in PreparedBufferUploads
    PROVE  SpansOf(Append(cs, c), <<>>) =
             Append(SpansOf(cs, <<>>), SpanOf(c.staging_offset, c.size))
<1> DEFINE more == Append(cs, c)
           last == SpanOf(c.staging_offset, c.size)
<1> DEFINE m == Len(cs)
<1>0. m \in Nat /\ DOMAIN cs = 1..m
  OBVIOUS
<1>1. /\ more \in Seq(PreparedBufferUploads) /\ Len(more) = m + 1 /\ DOMAIN more = 1..m + 1
      /\ \A k \in 1..m : more[k] = cs[k]
      /\ more[m + 1] = c
  OBVIOUS
<1>2. <<>> \in Seq(PreparedImageUploads) /\ Len(<<>>) = 0
  OBVIOUS
<1>3. last \in SpanTypes
  BY DEF SpanOf, SpanTypes, PreparedBufferUploads
<1>4. /\ Len(cs) = m /\ Len(<<>>) = 0 /\ m + 0 = m /\ m + 1 + 0 = m + 1
  BY <1>0
<1> HIDE DEF more, last, m
<1>5. /\ SpansOf(more, <<>>) \in Seq(SpanTypes) /\ Len(SpansOf(more, <<>>)) = m + 1
      /\ \A k \in 1..m + 1 :
           SpansOf(more, <<>>)[k] = SpanOf(more[k].staging_offset, more[k].size)
  BY <1>0, <1>1, <1>2, <1>4, SpansAre
<1>6. /\ SpansOf(cs, <<>>) \in Seq(SpanTypes) /\ Len(SpansOf(cs, <<>>)) = m
      /\ \A k \in 1..m : SpansOf(cs, <<>>)[k] = SpanOf(cs[k].staging_offset, cs[k].size)
  BY <1>0, <1>2, <1>4, SpansAre
<1>7. /\ Append(SpansOf(cs, <<>>), last) \in Seq(SpanTypes)
      /\ Len(Append(SpansOf(cs, <<>>), last)) = m + 1
      /\ \A k \in 1..m : Append(SpansOf(cs, <<>>), last)[k] = SpansOf(cs, <<>>)[k]
      /\ Append(SpansOf(cs, <<>>), last)[m + 1] = last
  BY <1>0, <1>3, <1>6
<1>8. \A k \in 1..m + 1 : SpansOf(more, <<>>)[k] = Append(SpansOf(cs, <<>>), last)[k]
  BY <1>0, <1>1, <1>5, <1>6, <1>7 DEF last
<1> QED BY <1>5, <1>7, <1>8, SameSequence DEF more, last

(* So does the next upload.                                                 *)
LEMMA UploadAddsSpan ==
    ASSUME NEW cs \in Seq(PreparedBufferUploads), NEW us \in Seq(PreparedImageUploads),
           NEW x \in PreparedImageUploads
    PROVE  SpansOf(cs, Append(us, x)) =
             Append(SpansOf(cs, us), SpanOf(x.region.buffer_offset, x.bytes))
<1> DEFINE more == Append(us, x)
           last == SpanOf(x.region.buffer_offset, x.bytes)
           m == Len(cs)
           n == Len(us)
<1>1. /\ more \in Seq(PreparedImageUploads) /\ Len(more) = n + 1 /\ DOMAIN more = 1..n + 1
      /\ \A k \in 1..n : more[k] = us[k]
      /\ more[n + 1] = x
  OBVIOUS
<1>2. m \in Nat /\ n \in Nat /\ DOMAIN cs = 1..m /\ DOMAIN us = 1..n
  OBVIOUS
<1>3. Len(cs) = m /\ Len(us) = n
  OBVIOUS
<1>4. last \in SpanTypes
  <2>1. x.region.buffer_offset \in Nat /\ x.bytes \in Nat
    BY DEF PreparedImageUploads, Regions
  <2> QED BY <2>1 DEF SpanOf, SpanTypes
<1> DEFINE after == SpansOf(cs, more)
           before == SpansOf(cs, us)
           appended == Append(before, last)
<1> HIDE DEF more, m, n
<1>5. /\ after \in Seq(SpanTypes) /\ Len(after) = m + n + 1
      /\ \A k \in 1..m : after[k] = SpanOf(cs[k].staging_offset, cs[k].size)
      /\ \A k \in 1..n + 1 :
           after[m + k] = SpanOf(more[k].region.buffer_offset, more[k].bytes)
  <2>1. /\ after \in Seq(SpanTypes) /\ Len(after) = Len(cs) + Len(more)
        /\ \A k \in DOMAIN cs : after[k] = SpanOf(cs[k].staging_offset, cs[k].size)
        /\ \A k \in DOMAIN more :
             after[Len(cs) + k] = SpanOf(more[k].region.buffer_offset, more[k].bytes)
    BY <1>1, SpansAre
  <2> HIDE DEF after
  <2>2. Len(after) = m + n + 1
    BY <1>1, <1>2, <1>3, <2>1
  <2>3. \A k \in 1..m : after[k] = SpanOf(cs[k].staging_offset, cs[k].size)
    BY <1>2, <2>1
  <2>4. \A k \in 1..n + 1 :
          after[m + k] = SpanOf(more[k].region.buffer_offset, more[k].bytes)
    BY <1>1, <1>3, <2>1
  <2> QED BY <2>1, <2>2, <2>3, <2>4
<1>6. /\ before \in Seq(SpanTypes) /\ Len(before) = m + n
      /\ \A k \in 1..m : before[k] = SpanOf(cs[k].staging_offset, cs[k].size)
      /\ \A k \in 1..n : before[m + k] = SpanOf(us[k].region.buffer_offset, us[k].bytes)
  BY <1>2, <1>3, SpansAre
<1> HIDE DEF last, before, after
<1>7. /\ appended \in Seq(SpanTypes) /\ Len(appended) = m + n + 1
      /\ \A k \in 1..m + n : appended[k] = before[k]
      /\ appended[m + n + 1] = last
  BY <1>2, <1>4, <1>6
<1>8. ASSUME NEW k \in 1..m + n + 1 PROVE after[k] = appended[k]
  <2>1. CASE k \in 1..m
    BY <1>2, <1>5, <1>6, <1>7, <2>1
  <2>2. CASE k \notin 1..m
    <3>1. k - m \in 1..n + 1 /\ k = m + (k - m)
      BY <1>2, <2>2
    <3>2. after[k] = SpanOf(more[k - m].region.buffer_offset, more[k - m].bytes)
      BY <1>5, <3>1
    <3>3. CASE k - m \in 1..n
      <4>1. before[k] = SpanOf(us[k - m].region.buffer_offset, us[k - m].bytes)
        BY <1>6, <3>1, <3>3
      <4>2. appended[k] = before[k]
        BY <1>2, <1>7, <3>1, <3>3
      <4> QED BY <1>1, <3>2, <3>3, <4>1, <4>2
    <3>4. CASE k - m = n + 1
      <4>1. k = m + n + 1 /\ more[k - m] = x
        BY <1>1, <1>2, <3>4
      <4> QED BY <1>7, <3>2, <4>1 DEF last
    <3>5. k - m \in 1..n \/ k - m = n + 1
      BY <1>2, <3>1
    <3> QED BY <3>3, <3>4, <3>5
  <2> QED BY <2>1, <2>2
<1> HIDE DEF appended
<1>9. after = appended
  BY <1>2, <1>5, <1>7, <1>8, SameSequence
<1> QED BY <1>9 DEF after, appended, before, last, more

LEMMA SumOfFours ==
    ASSUME NEW a \in Nat, NEW b \in Nat, a % 4 = 0, b % 4 = 0
    PROVE  (a + b) % 4 = 0
OBVIOUS

(* A span of a multiple of four bytes may follow.                           *)
LEMMA SpanFollows ==
    ASSUME NEW spans \in Seq(SpanTypes), NEW total \in Nat, Contiguous(spans, total),
           NEW size \in Nat, size % 4 = 0
    PROVE  Contiguous(Append(spans, SpanOf(total, size)), total + size)
<1> DEFINE n == Len(spans)
           more == Append(spans, SpanOf(total, size))
<1>1. /\ n \in Nat /\ Len(more) = n + 1 /\ DOMAIN more = 1..n + 1 /\ DOMAIN spans = 1..n
      /\ \A k \in 1..n : more[k] = spans[k] /\ spans[k] \in SpanTypes
      /\ more[n + 1] = SpanOf(total, size)
  <2>1. SpanOf(total, size) \in SpanTypes
    BY DEF SpanOf, SpanTypes
  <2> QED BY <2>1
<1>2. /\ \A k \in 1..n : more[k].offset \in Nat /\ more[k].size \in Nat
      /\ more[n + 1].offset = total /\ more[n + 1].size = size
  BY <1>1 DEF SpanTypes, SpanOf
<1> HIDE DEF more
<1>3. /\ \A k \in 1..n :
           /\ more[k].offset % 4 = 0 /\ more[k].size % 4 = 0
           /\ more[k].offset = (IF k = 1 THEN 0 ELSE more[k - 1].offset + more[k - 1].size)
           /\ more[k].offset + more[k].size <= total
      /\ \A j, k \in 1..n : j < k => more[j].offset + more[j].size <= more[k].offset
      /\ total = IF n = 0 THEN 0 ELSE more[n].offset + more[n].size
  <2>1. ASSUME NEW k \in 1..n, k # 1 PROVE more[k - 1] = spans[k - 1]
    <3>1. k - 1 \in 1..n
      BY <1>1, <2>1
    <3> QED BY <1>1, <3>1
  <2>2. \A k \in 1..n :
           /\ spans[k].offset % 4 = 0 /\ spans[k].size % 4 = 0
           /\ spans[k].offset = (IF k = 1 THEN 0 ELSE spans[k - 1].offset + spans[k - 1].size)
           /\ spans[k].offset + spans[k].size <= total
    BY <1>1 DEF Contiguous
  <2>3. \A j, k \in 1..n : j < k => spans[j].offset + spans[j].size <= spans[k].offset
    BY <1>1 DEF Contiguous
  <2>4. total = IF n = 0 THEN 0 ELSE spans[n].offset + spans[n].size
    BY DEF Contiguous
  <2>5. n # 0 => n \in 1..n
    BY <1>1
  <2> QED BY <1>1, <2>1, <2>2, <2>3, <2>4, <2>5
<1>4. total % 4 = 0
  <2>1. CASE n = 0
    BY <1>3, <2>1
  <2>2. CASE n # 0
    <3>1. n \in 1..n
      BY <1>1, <2>2
    <3>2. /\ more[n].offset \in Nat /\ more[n].size \in Nat
          /\ more[n].offset % 4 = 0 /\ more[n].size % 4 = 0
      BY <1>2, <1>3, <3>1
    <3> QED BY <1>3, <2>2, <3>2, SumOfFours
  <2> QED BY <2>1, <2>2
<1>5. ASSUME NEW k \in 1..n + 1
      PROVE  /\ more[k].offset % 4 = 0 /\ more[k].size % 4 = 0
             /\ more[k].offset = (IF k = 1 THEN 0 ELSE more[k - 1].offset + more[k - 1].size)
             /\ more[k].offset + more[k].size <= total + size
  <2>1. CASE k \in 1..n
    BY <1>2, <1>3, <2>1
  <2>2. CASE k = n + 1
    <3>1. total = IF k = 1 THEN 0 ELSE more[k - 1].offset + more[k - 1].size
      BY <1>1, <1>3, <2>2
    <3> QED BY <1>2, <1>4, <2>2, <3>1
  <2> QED BY <1>1, <2>1, <2>2
<1>6. ASSUME NEW j \in 1..n + 1, NEW k \in 1..n + 1, j < k
      PROVE  more[j].offset + more[j].size <= more[k].offset
  <2>1. CASE k \in 1..n
    <3>1. j \in 1..n
      BY <1>1, <1>6, <2>1
    <3> QED BY <1>3, <1>6, <2>1, <3>1
  <2>2. CASE k = n + 1
    <3>1. j \in 1..n
      BY <1>1, <1>6, <2>2
    <3> QED BY <1>2, <1>3, <2>2, <3>1
  <2> QED BY <1>1, <2>1, <2>2
<1>7. total + size = more[n + 1].offset + more[n + 1].size
  BY <1>2
<1>8. Contiguous(more, total + size)
  <2>1. DOMAIN more = 1..n + 1 /\ Len(more) = n + 1 /\ n + 1 # 0
    BY <1>1
  <2>2. total + size = IF Len(more) = 0 THEN 0 ELSE more[Len(more)].offset + more[Len(more)].size
    BY <1>7, <2>1
  <2>3. \A k \in DOMAIN more :
          /\ more[k].offset % 4 = 0 /\ more[k].size % 4 = 0
          /\ more[k].offset = (IF k = 1 THEN 0 ELSE more[k - 1].offset + more[k - 1].size)
          /\ more[k].offset + more[k].size <= total + size
    BY <1>5, <2>1
  <2>4. \A j, k \in DOMAIN more : j < k => more[j].offset + more[j].size <= more[k].offset
    BY <1>6, <2>1
  <2> QED BY <2>2, <2>3, <2>4, Zenon DEF Contiguous
<1> QED BY <1>8 DEF more

-----------------------------------------------------------------------------
(* The staging buffer                                                      *)

(* While prepare runs there is no batch, and nothing of one is recorded.    *)
LEMMA Preparing ==
    ASSUME UploadInv, step # "idle"
    PROVE  /\ InUse /\ ~Live(Staging) /\ ~batch /\ recorded = <<>>
           /\ allocator \in Allocators /\ description \in Descriptions
BY DEF UploadInv, UploadTypeOK, OwnerLives, Recording, InUse

LEMMA StagingIsDescribed ==
    ASSUME UploadInv, step # "idle"
    PROVE  StagingDescription \in BufferConfigs
<1>1. description.staging \in BufferConfigs /\ staging_bytes \in Sizes
  BY Preparing, UploadAssumption DEF UploadInv, UploadTypeOK
<1> QED BY <1>1 DEF StagingDescription, BufferConfigs, Usages

LEMMA UploadOwnersKeep ==
    ASSUME UploadInv, [Next]_vars
    PROVE  OwnersInv' /\ Accepted'
<1> USE DEF UploadInv
<1>1. CASE UNCHANGED ownerVars
  BY <1>1, OwnersUntouched DEF ownerVars, Accepted, Live
<1>2. CASE CreateStaging /\ ~UNCHANGED ownerVars
  <2>1. CreateBuffer(Local, allocator, StagingDescription) /\ step # "idle"
    BY <1>2 DEF CreateStaging, CreateBufferRejected, CreateBufferFails
  <2>2. OwnersInv' /\ images' = images
    BY <2>1, CreateBufferKeeps, Preparing, StagingIsDescribed, UploadAssumption DEF CreateBuffer
  <2> QED BY <2>2 DEF Accepted, Live
<1>3. CASE Map(Local) \/ Unmap(Local)
  <2>1. OwnersInv' /\ images' = images
    BY <1>3, MapKeeps, UploadAssumption DEF Map, Unmap, ownerVars
  <2> QED BY <2>1 DEF Accepted, Live
<1>4. CASE MoveBuffer(Owner, Local)
  <2>1. OwnersInv' /\ images' = images
    BY <1>4, BufferDisplaced, UploadAssumption DEF MoveBuffer
  <2> QED BY <2>1 DEF Accepted, Live
<1>5. CASE EndBuffer(Local) \/ EndBuffer(Owner)
  <2>1. OwnersInv' /\ images' = images
    BY <1>5, BufferDisplaced, UploadAssumption DEF EndBuffer
  <2> QED BY <2>1 DEF Accepted, Live
<1>6. CASE BufferTargetChanges \/ ImageTargetChanges
  <2>1. ResourcesNext
    BY <1>6 DEF BufferTargetChanges, ImageTargetChanges, ResourcesNext, BufferCalls, ImageCalls,
                Targets
  <2> QED BY <2>1, ResourcesKeep, ImagesAccepted
<1>7. CASE Prepare
  BY <1>1, <1>2, <1>3, <1>4, <1>5, <1>7
  DEF Prepare, PrepareRejected, PrepareBegins, PrepareBuffer, PrepareImage, MapStaging, WriteStaging,
      FlushStaging, Flush, Synchronize, UnmapStaging, PublishBatch, Unwind, resourceVars, ownerVars
<1>8. CASE RecordUpload
  BY <1>1, <1>8 DEF RecordUpload
<1>9. CASE Application
  BY <1>1, <1>5, <1>6, <1>9
  DEF Application, RetireBatch, ReleaseStaging, DestroyBuffer, CommandChanges, BeginCommand,
      FinishCommand
<1>10. CASE UNCHANGED vars
  BY <1>1, <1>10 DEF vars, resourceVars, ownerVars
<1> QED BY <1>7, <1>8, <1>9, <1>10 DEF Next

-----------------------------------------------------------------------------
(* What carries over                                                       *)

(* The spans follow from the entries.                                       *)
LEMMA SpansStay ==
    ASSUME UNCHANGED <<copies, uploads>>
    PROVE  Spans' = Spans
BY DEF Spans

(* What is packed does as well.                                             *)
LEMMA PackedStays ==
    ASSUME UNCHANGED <<copies, uploads>>, NEW i
    PROVE  Packed(i)' = Packed(i)
BY DEF Packed

(* What would be recorded follows from the wrappers and the entries.        *)
LEMMA CommandsStay ==
    ASSUME UNCHANGED <<buffers, images, copies, uploads>>
    PROVE  /\ Live(Staging)' = Live(Staging) /\ Recordable' = Recordable
           /\ (BufferCommands \o ImageCommands)' = BufferCommands \o ImageCommands
<1>1. Staging' = Staging /\ BufferCommands' = BufferCommands /\ ImageCommands' = ImageCommands
  BY DEF Staging, BufferCommands, ImageCommands, Buffer, Image
<1>2. Recordable' = Recordable
  <2>1. \A b : Buffer(b)' = Buffer(b)
    BY DEF Buffer
  <2>2. \A i : Image(i)' = Image(i)
    BY DEF Image
  <2>3. \A c : CopyEntryError(c)' = CopyEntryError(c)
    BY <1>1, <2>1 DEF CopyEntryError, Live
  <2>4. \A d, x : ImageEntryError(d, x)' = ImageEntryError(d, x)
    BY <1>1, <2>2 DEF ImageEntryError, Live
  <2>5. PairError' = PairError /\ ImagePairError' = ImagePairError
    BY <2>1 DEF PairError, ImagePairError
  <2> QED BY <2>3, <2>4, <2>5 DEF Recordable
<1> QED BY <1>1, <1>2 DEF Live

(* A step that leaves them alone cannot make a recorded command illegal.    *)
LEMMA RecordingStays ==
    ASSUME Recording, UNCHANGED <<buffers, images, copies, uploads>>,
           recorded' = recorded \/ recorded' = <<>>
    PROVE  Recording'
<1> DEFINE all == BufferCommands \o ImageCommands
<1>1. Live(Staging)' = Live(Staging) /\ Recordable' = Recordable /\ all' = all
  BY CommandsStay
<1>2. recorded' \in Seq({all})
  <2>1. recorded \in Seq({all}) /\ <<>> \in Seq({all})
    BY DEF Recording
  <2> HIDE DEF all
  <2> QED BY <2>1
<1> QED BY <1>1, <1>2 DEF Recording

LEMMA NothingRecorded == recorded' = <<>> => Recording'
BY DEF Recording

(* The call is over, without a staging buffer.                              *)
LEMMA Forgotten ==
    ASSUME OwnersInv', Accepted', Forget, batch' = FALSE, recorded' = <<>>,
           ~Live(buffers[Local])', ~Live(Staging)'
    PROVE  UploadInv'
<1>1. UploadTypeOK'
  <2>1. step' = "idle" /\ copies' = <<>> /\ uploads' = <<>> /\ staging_bytes' = 0
    BY DEF Forget
  <2>2. ~InUse' /\ 0 \in Sizes
    BY <2>1, ResourcesAssumption DEF InUse, Sizes
  <2> QED BY <2>1, <2>2 DEF UploadTypeOK
<1>2. LocalLives' /\ OwnerLives'
  BY DEF Forget, LocalLives, OwnerLives, Holding
<1>3. EntriesOfItems'
  BY DEF Forget, EntriesOfItems, InUse, Holding
<1>4. Contiguous(Spans, staging_bytes)'
  <2>1. Spans' = <<>> /\ staging_bytes' = 0
    BY DEF Forget, Spans
  <2> QED BY <2>1 DEF Contiguous
<1>5. MemoryHolds'
  BY DEF MemoryHolds, Forget
<1> QED BY <1>1, <1>2, <1>3, <1>4, <1>5, NothingRecorded DEF UploadInv

(* A step of the application outside of prepare.                            *)
LEMMA Elsewhere ==
    ASSUME UploadInv, OwnersInv', Accepted', Recording',
           UNCHANGED <<prepareVars, entryVars, memoryVars>>,
           batch' = batch \/ batch' = FALSE,
           buffers'[Local] = buffers[Local], buffers'[Owner] = buffers[Owner]
    PROVE  UploadInv'
<1> USE DEF UploadInv, prepareVars, entryVars, memoryVars
<1>1. Staging' = Staging /\ InUse' = InUse /\ ItemsPrepared' = ItemsPrepared
      /\ StagingDescription' = StagingDescription
  BY DEF Staging, InUse, ItemsPrepared, StagingDescription, Live
<1>2. UploadTypeOK' /\ LocalLives' /\ OwnerLives'
  <2>1. CASE batch' = batch
    BY <1>1, <2>1 DEF UploadTypeOK, LocalLives, OwnerLives, Live
  <2>2. CASE batch' = FALSE
    BY <1>1, <2>2 DEF UploadTypeOK, LocalLives, OwnerLives, Live
  <2> QED BY <2>1, <2>2
<1>3. EntriesOfItems'
  BY <1>1 DEF EntriesOfItems, Live
<1>4. Contiguous(Spans, staging_bytes)'
  BY SpansStay DEF Contiguous
<1>5. MemoryHolds'
  BY <1>1, PackedStays DEF MemoryHolds, Live
<1> QED BY <1>2, <1>3, <1>4, <1>5

(* A step of prepare after it created its local buffer.                     *)
LEMMA InHand ==
    ASSUME UploadInv, OwnersInv', Accepted', LocalLives', MemoryHolds',
           step # "idle", step' \in Holding, ItemsPrepared,
           UNCHANGED <<allocator, description, entryVars, recorded, batch>>,
           buffers'[Owner] = buffers[Owner]
    PROVE  UploadInv'
<1> USE DEF UploadInv, entryVars
<1>1. Staging' = Staging /\ InUse /\ InUse' /\ ItemsPrepared' /\ ~Live(Staging) /\ ~batch
      /\ recorded = <<>>
  BY Preparing DEF Staging, InUse, ItemsPrepared, Holding
<1>2. UploadTypeOK' /\ OwnerLives'
  BY <1>1, Preparing DEF UploadTypeOK, OwnerLives, Live
<1>3. EntriesOfItems'
  BY <1>1 DEF EntriesOfItems, Live
<1>4. Contiguous(Spans, staging_bytes)'
  BY SpansStay DEF Contiguous
<1>5. Recording'
  BY <1>1, NothingRecorded
<1> QED BY <1>2, <1>3, <1>4, <1>5

-----------------------------------------------------------------------------
(* The items                                                               *)

(* A footprint that is not refused is the bytes from the first texel of a   *)
(* region to its last.                                                      *)
LEMMA UploadFootprintIs ==
    ASSUME NEW r \in Regions, r.width # 0, r.height # 0, UploadFootprint(r) # Overflow
    PROVE  /\ UploadFootprint(r) = (RowTexels(r) * (r.height - 1) + r.width) * Texel
           /\ UploadFootprint(r) \in Nat /\ UploadFootprint(r) % 4 = 0
<1> DEFINE rows == r.height - 1
           pitch == RowTexels(r)
           texels == rows * pitch + r.width
<1>1. rows \in Nat /\ pitch \in Nat /\ r.width \in Nat
  BY DEF Regions, RowTexels
<1>2. UploadFootprint(r) = texels * Texel
  BY DEF UploadFootprint
<1>3. rows * pitch = pitch * rows /\ rows * pitch \in Nat
  <2> HIDE DEF rows, pitch
  <2> QED BY <1>1
<1>4. texels \in Nat
  BY <1>1, <1>3
<1>5. texels = pitch * rows + r.width
  BY <1>3
<1>6. texels * Texel \in Nat /\ (texels * Texel) % 4 = 0
  <2> HIDE DEF texels
  <2> QED BY <1>4 DEF Texel
<1> HIDE DEF texels
<1> QED BY <1>2, <1>5, <1>6

LEMMA PrepareBeginsKeeps ==
    ASSUME UploadInv, OwnersInv', Accepted', PrepareBegins
    PROVE  UploadInv'
<1> USE DEF UploadInv
<1>1. /\ step = "idle" /\ ~batch /\ batch' = batch /\ ~Live(Staging)
      /\ UNCHANGED <<buffers, recorded>> /\ step' = "items"
      /\ allocator' \in Allocators /\ description' \in Descriptions
      /\ copies' = <<>> /\ uploads' = <<>> /\ staging_bytes' = 0
  BY DEF PrepareBegins, Staging, resourceVars, commandVars
<1>2. Staging' = Staging /\ InUse' /\ ~Live(Staging)' /\ recorded' = <<>>
  BY <1>1 DEF Staging, InUse, Recording, Live
<1>3. UploadTypeOK'
  <2>1. 0 \in Sizes
    BY ResourcesAssumption DEF Sizes
  <2> QED BY <1>1, <1>2, <2>1 DEF UploadTypeOK
<1>4. LocalLives' /\ OwnerLives'
  BY <1>1, <1>2 DEF LocalLives, OwnerLives, Holding, Live
<1>5. EntriesOfItems'
  <2>1. /\ description'.buffers \in Seq(BufferUploadItems)
        /\ description'.images \in Seq(ImageUploadItems)
    BY <1>1, UploadAssumption
  <2> QED BY <1>1, <1>2, <2>1 DEF EntriesOfItems, Holding
<1>6. Contiguous(Spans, staging_bytes)'
  <2>1. Spans' = <<>> /\ staging_bytes' = 0
    BY <1>1 DEF Spans
  <2> QED BY <2>1 DEF Contiguous
<1>7. MemoryHolds'
  BY <1>1, <1>2 DEF MemoryHolds
<1> QED BY <1>2, <1>3, <1>4, <1>5, <1>6, <1>7, NothingRecorded

(* The next entry is that of the next item, and its span follows the last.  *)
LEMMA EntryAdded ==
    ASSUME UploadInv, OwnersInv', Accepted', step = "items",
           UNCHANGED <<prepareVars, memoryVars, ownerVars, commandVars, batch>>,
           EntriesOfItems', Contiguous(Spans, staging_bytes)', staging_bytes' \in Sizes
    PROVE  UploadInv'
<1> USE DEF UploadInv, prepareVars, memoryVars, ownerVars, commandVars
<1>1. /\ ~Live(Staging) /\ Staging' = Staging /\ InUse /\ InUse' /\ ~batch /\ recorded = <<>>
      /\ step' = "items"
  BY Preparing DEF Staging, InUse
<1>2. UploadTypeOK'
  BY <1>1 DEF UploadTypeOK
<1>3. LocalLives' /\ OwnerLives'
  BY <1>1 DEF LocalLives, OwnerLives, Holding, Live
<1>4. MemoryHolds'
  BY <1>1 DEF MemoryHolds, Live
<1> QED BY <1>1, <1>2, <1>3, <1>4, NothingRecorded

LEMMA PrepareBufferKeeps ==
    ASSUME UploadInv, OwnersInv', Accepted', PrepareBuffer
    PROVE  UploadInv'
<1> USE DEF UploadInv
<1> DEFINE n == Len(copies)
           w == description.buffers[n + 1]
           c == [destination |-> w.destination, staging_offset |-> staging_bytes,
                 destination_offset |-> w.offset, size |-> w.bytes]
<1>1. /\ step = "items" /\ n < Len(description.buffers)
      /\ UNCHANGED <<ownerVars, commandVars, batch>>
  BY DEF PrepareBuffer
<1>2. CASE BufferItemError(w) # "none"
  <2>1. Forget
    BY <1>2 DEF PrepareBuffer, Refuse
  <2>2. batch' = FALSE /\ recorded' = <<>> /\ ~Live(buffers[Local])' /\ ~Live(Staging)'
    BY <1>1, Preparing DEF LocalLives, Staging, ownerVars, commandVars, Live, Holding, UploadTypeOK
  <2> QED BY <2>1, <2>2, Forgotten
<1>3. CASE BufferItemError(w) = "none"
  <2>1. /\ copies' = Append(copies, c) /\ staging_bytes' = staging_bytes + w.bytes
        /\ UNCHANGED <<prepareVars, uploads, memoryVars>>
    BY <1>3 DEF PrepareBuffer
  <2>2. /\ copies \in Seq(PreparedBufferUploads) /\ n \in Nat /\ DOMAIN copies = 1..n
        /\ uploads = <<>> /\ InUse /\ description \in Descriptions /\ ~Live(Staging)
    BY <1>1, Preparing DEF EntriesOfItems
  <2>3. description.buffers \in Seq(BufferUploadItems)
    BY <2>2, UploadAssumption
  <2>4. w \in BufferUploadItems
    BY <1>1, <2>2, <2>3
  <2>5. /\ w.bytes \in Nat /\ w.bytes % 4 = 0 /\ w.bytes <= MaxSize - staging_bytes
        /\ staging_bytes \in Nat /\ MaxSize \in Nat /\ staging_bytes <= MaxSize
    BY <1>3, <2>4, ResourcesAssumption
    DEF BufferItemError, FitsStaging, BufferUploadItems, UploadTypeOK, Sizes
  <2>6. c \in PreparedBufferUploads /\ IsCopyOf(c, w)
    BY <2>4, <2>5 DEF BufferUploadItems, PreparedBufferUploads, IsCopyOf
  <2>7. staging_bytes' \in Sizes
    BY <2>1, <2>5 DEF Sizes
  <2> HIDE DEF c
  <2>8. EntriesOfItems'
    <3>1. /\ copies' \in Seq(PreparedBufferUploads) /\ Len(copies') = n + 1
          /\ DOMAIN copies' = 1..n + 1
          /\ \A k \in 1..n : copies'[k] = copies[k]
          /\ copies'[n + 1] = c
      BY <2>1, <2>2, <2>6
    <3>2. Len(copies') <= Len(description.buffers)
      BY <1>1, <2>2, <2>3, <3>1
    <3>3. \A k \in DOMAIN copies' : IsCopyOf(copies'[k], description.buffers[k])
      <4>1. \A k \in 1..n : IsCopyOf(copies[k], description.buffers[k])
        BY <2>2 DEF EntriesOfItems
      <4> HIDE DEF n
      <4>2. \A k \in 1..n + 1 : k \in 1..n \/ k = n + 1
        BY <2>2
      <4> QED BY <2>6, <3>1, <4>1, <4>2 DEF n
    <3>4. /\ uploads' = <<>> /\ description' = description /\ step' = "items"
          /\ ~Live(Staging)'
      BY <1>1, <2>1, <2>2 DEF prepareVars, ownerVars, Staging, Live
    <3>5. /\ uploads' \in Seq(PreparedImageUploads)
          /\ Len(uploads') <= Len(description.images)
          /\ \A k \in DOMAIN uploads' : IsUploadOf(uploads'[k], description.images[k])
      BY <2>2, <3>4 DEF EntriesOfItems
    <3> HIDE DEF n, w
    <3> QED BY <3>1, <3>2, <3>3, <3>4, <3>5 DEF EntriesOfItems, Holding
  <2>9. Contiguous(Spans, staging_bytes)'
    <3>1. Spans = SpansOf(copies, <<>>) /\ Spans' = SpansOf(Append(copies, c), <<>>)
      BY <2>1, <2>2 DEF Spans, SpansOf, SpanOf
    <3>2. Spans' = Append(Spans, SpanOf(staging_bytes, w.bytes))
      <4>1. c.staging_offset = staging_bytes /\ c.size = w.bytes
        BY DEF c
      <4> QED BY <2>2, <2>6, <3>1, <4>1, CopyAddsSpan
    <3>3. Spans \in Seq(SpanTypes)
      BY SpansTyped
    <3>4. Contiguous(Append(Spans, SpanOf(staging_bytes, w.bytes)), staging_bytes + w.bytes)
      BY <2>5, <3>3, SpanFollows
    <3> QED BY <2>1, <3>2, <3>4
  <2> QED BY <1>1, <2>1, <2>7, <2>8, <2>9, EntryAdded
<1> QED BY <1>2, <1>3

LEMMA PrepareImageKeeps ==
    ASSUME UploadInv, OwnersInv', Accepted', PrepareImage
    PROVE  UploadInv'
<1> USE DEF UploadInv
<1> DEFINE n == Len(uploads)
           w == description.images[n + 1]
           x == Snapshot(w, staging_bytes)
<1>1. /\ step = "items" /\ Len(copies) = Len(description.buffers) /\ n < Len(description.images)
      /\ UNCHANGED <<ownerVars, commandVars, batch>>
  BY DEF PrepareImage
<1>2. CASE ImageItemError(w) # "none"
  <2>1. Forget
    BY <1>2 DEF PrepareImage, Refuse
  <2>2. batch' = FALSE /\ recorded' = <<>> /\ ~Live(buffers[Local])' /\ ~Live(Staging)'
    BY <1>1, Preparing DEF LocalLives, Staging, ownerVars, commandVars, Live, Holding, UploadTypeOK
  <2> QED BY <2>1, <2>2, Forgotten
<1>3. CASE ImageItemError(w) = "none"
  <2>1. /\ uploads' = Append(uploads, x) /\ staging_bytes' = staging_bytes + w.bytes
        /\ UNCHANGED <<prepareVars, copies, memoryVars>>
    BY <1>3 DEF PrepareImage
  <2>2. /\ uploads \in Seq(PreparedImageUploads) /\ n \in Nat /\ DOMAIN uploads = 1..n
        /\ copies \in Seq(PreparedBufferUploads)
        /\ InUse /\ description \in Descriptions /\ ~Live(Staging)
    BY <1>1, Preparing DEF EntriesOfItems
  <2>3. description.images \in Seq(ImageUploadItems)
    BY <2>2, UploadAssumption
  <2>4. w \in ImageUploadItems
    BY <1>1, <2>2, <2>3
  <2>5. /\ w.destination \in Images \cup {Null} /\ w.layout \in STRING /\ w.region \in Regions
        /\ w.bytes \in Nat
    BY <2>4 DEF ImageUploadItems
  <2>6. /\ Live(Image(w.destination)) /\ w.bytes = UploadFootprint(w.region)
        /\ FitsStaging(w.bytes)
        /\ ValidImageRegion(Image(w.destination).config, w.region)
    BY <1>3 DEF ImageItemError
  <2>7. w.bytes <= MaxSize - staging_bytes
        /\ staging_bytes \in Nat /\ MaxSize \in Nat /\ staging_bytes <= MaxSize
    BY <2>6, ResourcesAssumption DEF FitsStaging, UploadTypeOK, Sizes
  <2>8. w.bytes % 4 = 0
    <3>1. w.region.width # 0 /\ w.region.height # 0
      BY <2>6 DEF ValidImageRegion, InsideMip
    <3>2. UploadFootprint(w.region) # Overflow
      BY <2>5, <2>6, <2>7 DEF Overflow
    <3> QED BY <2>5, <2>6, <3>1, <3>2, UploadFootprintIs
  <2>9. x \in PreparedImageUploads /\ IsUploadOf(x, w) /\ x.region.buffer_offset = staging_bytes
    <3>1. Image(w.destination).handle \in Handles
      <4>1. w.destination \in Images /\ Image(w.destination) = images[w.destination]
        BY <2>5, <2>6 DEF Image, Live
      <4> QED BY <2>6, <4>1, ImageStands DEF ImageImpls
    <3> DEFINE r == [w.region EXCEPT !.buffer_offset = staging_bytes]
    <3>2. r \in Regions /\ r.buffer_offset = staging_bytes
      BY <2>5, <2>7 DEF Regions
    <3> HIDE DEF r
    <3>3. x = [destination |-> w.destination, image |-> Image(w.destination).handle,
               layout |-> w.layout, region |-> r, bytes |-> w.bytes]
      BY <2>6 DEF Snapshot, r
    <3> HIDE DEF x
    <3>4. x \in PreparedImageUploads
      BY <2>5, <3>1, <3>2, <3>3 DEF PreparedImageUploads
    <3> QED BY <3>2, <3>3, <3>4 DEF IsUploadOf, r
  <2>10. staging_bytes' \in Sizes
    BY <2>1, <2>5, <2>7 DEF Sizes
  <2> HIDE DEF x
  <2>11. EntriesOfItems'
    <3>1. /\ uploads' \in Seq(PreparedImageUploads) /\ Len(uploads') = n + 1
          /\ DOMAIN uploads' = 1..n + 1
          /\ \A k \in 1..n : uploads'[k] = uploads[k]
          /\ uploads'[n + 1] = x
      BY <2>1, <2>2, <2>9
    <3>2. Len(uploads') <= Len(description.images)
      BY <1>1, <2>2, <2>3, <3>1
    <3>3. \A k \in DOMAIN uploads' : IsUploadOf(uploads'[k], description.images[k])
      <4>1. \A k \in 1..n : IsUploadOf(uploads[k], description.images[k])
        BY <2>2 DEF EntriesOfItems
      <4> HIDE DEF n
      <4>2. \A k \in 1..n + 1 : k \in 1..n \/ k = n + 1
        BY <2>2
      <4> QED BY <2>9, <3>1, <4>1, <4>2 DEF n
    <3>4. /\ copies' = copies /\ description' = description /\ step' = "items"
          /\ ~Live(Staging)'
      BY <1>1, <2>1, <2>2 DEF prepareVars, ownerVars, Staging, Live
    <3>5. /\ Len(copies) <= Len(description.buffers)
          /\ \A k \in DOMAIN copies : IsCopyOf(copies[k], description.buffers[k])
      BY <2>2 DEF EntriesOfItems
    <3> HIDE DEF n, w
    <3> QED BY <1>1, <2>2, <3>1, <3>2, <3>3, <3>4, <3>5 DEF EntriesOfItems, Holding
  <2>12. Contiguous(Spans, staging_bytes)'
    <3>1. Spans = SpansOf(copies, uploads) /\ Spans' = SpansOf(copies, Append(uploads, x))
      BY <2>1 DEF Spans, SpansOf, SpanOf
    <3>2. Spans' = Append(Spans, SpanOf(staging_bytes, w.bytes))
      <4>1. x.region.buffer_offset = staging_bytes /\ x.bytes = w.bytes
        BY <2>9 DEF IsUploadOf
      <4> QED BY <2>2, <2>9, <3>1, <4>1, UploadAddsSpan
    <3>3. Spans \in Seq(SpanTypes)
      BY SpansTyped
    <3>4. Contiguous(Append(Spans, SpanOf(staging_bytes, w.bytes)), staging_bytes + w.bytes)
      BY <2>5, <2>7, <2>8, <3>3, SpanFollows
    <3> QED BY <2>1, <3>2, <3>4
  <2> QED BY <1>1, <2>1, <2>10, <2>11, <2>12, EntryAdded
<1> QED BY <1>2, <1>3

-----------------------------------------------------------------------------
(* The calls on the staging buffer                                         *)

LEMMA CreateStagingKeeps ==
    ASSUME UploadInv, OwnersInv', Accepted', CreateStaging
    PROVE  UploadInv'
<1> USE DEF UploadInv
<1>1. step = "items" /\ ItemsPrepared /\ UNCHANGED <<commandVars, batch>>
  BY DEF CreateStaging
<1>2. /\ ~batch /\ recorded = <<>> /\ ~Live(Staging) /\ ~Live(buffers[Local])
      /\ allocator \in Allocators
  BY <1>1, Preparing DEF LocalLives, Holding
<1>3. CASE CreateBuffer(Local, allocator, StagingDescription)
  <2>1. /\ step' = "map"
        /\ UNCHANGED <<allocator, description, entryVars, memoryVars>>
    BY <1>2, <1>3 DEF CreateStaging, CreateBuffer, CreateBufferRejected, CreateBufferFails, Returns
  <2>2. /\ Live(buffers'[Local]) /\ buffers'[Local].config = StagingDescription
        /\ buffers'[Local].mapping = FALSE /\ buffers'[Owner] = buffers[Owner]
    BY <1>1, <1>2, <1>3, CreatedBuffer, StagingIsDescribed, UploadAssumption
  <2>3. StagingDescription' = StagingDescription
    BY <2>1 DEF StagingDescription, entryVars
  <2>4. LocalLives'
    BY <2>1, <2>2, <2>3 DEF LocalLives, Holding, Live
  <2>5. MemoryHolds'
    BY <1>2, <2>1, <2>2 DEF MemoryHolds, Staging, Live
  <2> QED BY <1>1, <2>1, <2>2, <2>4, <2>5, InHand DEF Holding, commandVars
<1>4. CASE ~CreateBuffer(Local, allocator, StagingDescription)
  <2>1. Forget /\ UNCHANGED ownerVars
    BY <1>4 DEF CreateStaging, CreateBufferRejected, CreateBufferFails
  <2> QED BY <1>1, <1>2, <2>1, Forgotten DEF UploadTypeOK, ownerVars, commandVars, Staging, Live
<1> QED BY <1>3, <1>4

(* A call that marks the local buffer mapped or not, or fails.              *)
LEMMA MapStagingKeeps ==
    ASSUME UploadInv, OwnersInv', Accepted', MapStaging \/ UnmapStaging
    PROVE  UploadInv'
<1> USE DEF UploadInv
<1>1. /\ step \in {"map", "unmap"}
      /\ UNCHANGED <<commandVars, allocator, description, entryVars, memoryVars, batch>>
  BY DEF MapStaging, UnmapStaging
<1>2. /\ Live(buffers[Local]) /\ buffers[Local].config = StagingDescription
      /\ buffers \in [Buffers -> BufferImpls \cup {Null}] /\ ItemsPrepared /\ ~Live(Staging)
  BY <1>1, Preparing DEF LocalLives, Holding, EntriesOfItems, OwnersInv, ResourcesTypeOK
<1>3. /\ buffers'[Owner] = buffers[Owner]
      /\ Live(buffers'[Local]) /\ buffers'[Local].config = StagingDescription
      /\ step' = "write" => step = "map" /\ buffers'[Local].mapping
      /\ step' = "publish" => step = "unmap" /\ ~buffers'[Local].mapping
      /\ step' \in {"write", "publish", "unwind"}
      /\ buffers'[Local].mapping \in BOOLEAN
  <2>1. buffers[Local] \in BufferImpls /\ buffers[Local].mapping \in BOOLEAN
    BY <1>2, UploadAssumption DEF Live, BufferImpls
  <2>2. CASE MapStaging
    <3>1. CASE UNCHANGED ownerVars /\ outcome' # "ok"
      BY <1>1, <1>2, <2>1, <2>2, <3>1 DEF MapStaging, Continues, ownerVars
    <3>2. CASE ~(UNCHANGED ownerVars /\ outcome' # "ok")
      <4>1. buffers' = [buffers EXCEPT ![Local].mapping = TRUE] /\ outcome' = "ok"
        BY <2>2, <3>2 DEF MapStaging, Map, MapError, Returns
      <4>2. buffers'[Local] = [buffers[Local] EXCEPT !.mapping = TRUE]
        BY <1>2, <4>1, UploadAssumption
      <4>3. /\ buffers'[Local] \in BufferImpls /\ buffers'[Local].mapping
            /\ buffers'[Local].config = StagingDescription
        BY <1>2, <2>1, <4>2 DEF BufferImpls
      <4>4. step' = "write" /\ step = "map"
        BY <2>2, <4>1 DEF MapStaging, Continues
      <4> QED BY <1>2, <4>1, <4>3, <4>4, ResourcesAssumption, UploadAssumption DEF Live
    <3> QED BY <3>1, <3>2
  <2>3. CASE UnmapStaging
    <3>1. CASE UNCHANGED ownerVars /\ outcome' # "ok"
      BY <1>1, <1>2, <2>1, <2>3, <3>1 DEF UnmapStaging, Continues, ownerVars
    <3>2. CASE ~(UNCHANGED ownerVars /\ outcome' # "ok")
      <4>1. buffers' = [buffers EXCEPT ![Local].mapping = FALSE] /\ outcome' = "ok"
        BY <2>3, <3>2 DEF UnmapStaging, Unmap, UnmapError, Returns
      <4>2. buffers'[Local] = [buffers[Local] EXCEPT !.mapping = FALSE]
        BY <1>2, <4>1, UploadAssumption
      <4>3. /\ buffers'[Local] \in BufferImpls /\ buffers'[Local].mapping = FALSE
            /\ buffers'[Local].config = StagingDescription
        BY <1>2, <2>1, <4>2 DEF BufferImpls
      <4>4. step' = "publish" /\ step = "unmap"
        BY <2>3, <4>1 DEF UnmapStaging, Continues
      <4> QED BY <1>2, <4>1, <4>3, <4>4, ResourcesAssumption, UploadAssumption DEF Live
    <3> QED BY <3>1, <3>2
  <2> QED BY <2>2, <2>3
<1>4. StagingDescription' = StagingDescription
  BY <1>1 DEF StagingDescription, entryVars
<1>5. LocalLives'
  BY <1>3, <1>4 DEF LocalLives, Holding, Live
<1>6. MemoryHolds'
  BY <1>1, <1>2, <1>3, PackedStays DEF MemoryHolds, entryVars, memoryVars, Staging, Live
<1> QED BY <1>1, <1>2, <1>3, <1>5, <1>6, InHand DEF Holding, commandVars

LEMMA WriteStagingKeeps ==
    ASSUME UploadInv, OwnersInv', Accepted', WriteStaging
    PROVE  UploadInv'
<1> USE DEF UploadInv
<1>1. /\ step = "write" /\ step' = "flush"
      /\ host' = [i \in 0..staging_bytes - 1 |-> Packed(i)]
      /\ UNCHANGED <<buffers, allocator, description, entryVars, recorded, batch>>
  BY DEF WriteStaging, resourceVars, commandVars
<1>2. ItemsPrepared /\ ~Live(Staging) /\ StagingDescription' = StagingDescription
  BY <1>1, Preparing DEF EntriesOfItems, Holding, StagingDescription, entryVars
<1>3. LocalLives'
  BY <1>1, <1>2 DEF LocalLives, Holding, Live
<1>4. MemoryHolds'
  BY <1>1, <1>2, PackedStays DEF MemoryHolds, entryVars, Staging, Live
<1> QED BY <1>1, <1>2, <1>3, <1>4, InHand DEF Holding

LEMMA FlushStagingKeeps ==
    ASSUME UploadInv, OwnersInv', Accepted', FlushStaging
    PROVE  UploadInv'
<1> USE DEF UploadInv
<1>1. /\ step = "flush" /\ UNCHANGED <<ownerVars, allocator, description, entryVars, host, batch>>
      /\ recorded' = recorded
      /\ Synchronize(Local, 0, WholeSize) /\ Continues("unmap")
  BY DEF FlushStaging, Flush, Synchronize, commandVars
<1>2. /\ ItemsPrepared /\ ~Live(Staging) /\ StagingDescription' = StagingDescription
      /\ Staging' = Staging
  BY <1>1, Preparing DEF EntriesOfItems, Holding, StagingDescription, entryVars, Staging, ownerVars
<1>3. /\ Live(buffers[Local]) /\ buffers[Local].mapping
      /\ buffers[Local].config = StagingDescription
  BY <1>1 DEF LocalLives, Holding
<1>4. step' = IF outcome' = "ok" THEN "unmap" ELSE "unwind"
  BY <1>1 DEF Continues
<1>5. LocalLives'
  BY <1>1, <1>2, <1>3, <1>4 DEF LocalLives, Holding, Live, ownerVars
<1>6. host = [i \in 0..staging_bytes - 1 |-> Packed(i)]
  BY <1>1 DEF MemoryHolds
<1>7. step' = "unmap" => device' = host
  <2> SUFFICES ASSUME step' = "unmap" PROVE device' = host
    OBVIOUS
  <2>1. outcome' = "ok"
    BY <1>4
  <2>2. staging_bytes \in Nat /\ buffers[Local].config.size = staging_bytes
    <3>1. description.staging \in BufferConfigs /\ staging_bytes \in Sizes
      BY <1>1, Preparing, UploadAssumption DEF UploadTypeOK
    <3> QED BY <1>3, <3>1, ResourcesAssumption DEF StagingDescription, BufferConfigs, Sizes
  <2>3. synced' = [handle |-> buffers[Local].handle, offset |-> 0, size |-> staging_bytes]
    <3>1. SynchronizeError(Local, 0, WholeSize) # "ok"
      BY DEF SynchronizeError
    <3> QED BY <1>1, <2>1, <2>2, <3>1 DEF Synchronize, Returns
  <2>4. synced'.offset = 0 /\ synced'.size = staging_bytes
    BY <2>3
  <2>5. device' = [i \in DOMAIN host |-> IF i \in 0..staging_bytes - 1 THEN host[i] ELSE Undefined]
    <3>1. 0..0 + staging_bytes - 1 = 0..staging_bytes - 1
      BY <2>2
    <3> QED BY <2>1, <2>4, <3>1 DEF FlushStaging, Flush
  <2> QED BY <1>6, <2>5
<1>8. MemoryHolds'
  BY <1>1, <1>2, <1>4, <1>6, <1>7, PackedStays DEF MemoryHolds, entryVars, Live
<1> QED BY <1>1, <1>2, <1>4, <1>5, <1>8, InHand DEF Holding, ownerVars

LEMMA PublishBatchKeeps ==
    ASSUME UploadInv, OwnersInv', Accepted', PublishBatch
    PROVE  UploadInv'
<1> USE DEF UploadInv
<1>1. /\ step = "publish" /\ step' = "idle" /\ batch' = TRUE
      /\ UNCHANGED <<allocator, description, entryVars, memoryVars, recorded>>
      /\ buffers' = [buffers EXCEPT ![Owner] = buffers[Local], ![Local] = Null]
  BY UploadAssumption DEF PublishBatch, MoveBuffer, commandVars
<1>2. /\ Live(buffers[Local]) /\ ~buffers[Local].mapping
      /\ buffers[Local].config = StagingDescription
      /\ InUse /\ ~Live(Staging) /\ recorded = <<>> /\ ItemsPrepared
      /\ StagingDescription' = StagingDescription
  BY <1>1, Preparing DEF LocalLives, Holding, EntriesOfItems, StagingDescription, entryVars
<1>3. buffers'[Owner] = buffers[Local] /\ buffers'[Local] = Null
  BY <1>1, UploadAssumption DEF OwnersInv, ResourcesTypeOK
<1>4. Live(Staging)' /\ Staging' = buffers[Local] /\ InUse' /\ ItemsPrepared'
  BY <1>1, <1>2, <1>3 DEF Staging, Live, InUse, ItemsPrepared, entryVars
<1>5. UploadTypeOK'
  BY <1>1, <1>2, <1>4 DEF UploadTypeOK, entryVars
<1>6. LocalLives' /\ OwnerLives'
  BY <1>1, <1>2, <1>3, <1>4 DEF LocalLives, OwnerLives, Holding, Live
<1>7. EntriesOfItems'
  BY <1>1, <1>2, <1>4 DEF EntriesOfItems, entryVars
<1>8. Contiguous(Spans, staging_bytes)'
  BY <1>1, SpansStay DEF Contiguous, entryVars
<1>9. MemoryHolds'
  BY <1>1, <1>4, PackedStays DEF MemoryHolds, entryVars, memoryVars
<1> QED BY <1>1, <1>2, <1>5, <1>6, <1>7, <1>8, <1>9, NothingRecorded

LEMMA UnwindKeeps ==
    ASSUME UploadInv, OwnersInv', Accepted', Unwind
    PROVE  UploadInv'
<1> USE DEF UploadInv
<1>1. /\ step # "idle" /\ Forget /\ UNCHANGED <<recorded, batch>>
      /\ buffers' = [buffers EXCEPT ![Local] = Null]
  BY DEF Unwind, EndBuffer, commandVars
<1>2. ~Live(buffers[Local])' /\ ~Live(Staging)' /\ recorded' = <<>> /\ batch' = FALSE
  BY <1>1, Preparing, UploadAssumption DEF OwnersInv, ResourcesTypeOK, Staging, Live, UploadTypeOK
<1> QED BY <1>1, <1>2, Forgotten

LEMMA ReleaseStagingKeeps ==
    ASSUME UploadInv, OwnersInv', Accepted', ReleaseStaging
    PROVE  UploadInv'
<1> USE DEF UploadInv
<1>1. /\ step = "idle" /\ recorded = <<>> /\ Forget /\ recorded' = recorded /\ batch' = FALSE
      /\ buffers' = [buffers EXCEPT ![Owner] = Null]
  BY DEF ReleaseStaging, DestroyBuffer, EndBuffer, commandVars
<1>2. ~Live(buffers[Local])' /\ ~Live(Staging)'
  BY <1>1, UploadAssumption DEF OwnersInv, ResourcesTypeOK, Staging, Live, LocalLives, Holding
<1> QED BY <1>1, <1>2, Forgotten

-----------------------------------------------------------------------------
(* Recording                                                               *)

(* What recordUploadBatch() has found when it begins to record.             *)
LEMMA Validated ==
    ASSUME UploadInv, NEW d \in Devices \cup {Null}, RecordUploadError(d) = "none"
    PROVE  /\ batch /\ d \in Devices /\ RecordingError(d) = "none"
           /\ Live(Staging) /\ "transfer_src" \in Staging.config.usage
           /\ \A k \in DOMAIN copies : CopyEntryError(copies[k]) = "none"
           /\ \A k \in DOMAIN uploads : ImageEntryError(d, uploads[k]) = "none"
           /\ PairError = "none" /\ ImagePairError = "none"
<1> DEFINE buffer == [k \in DOMAIN copies |-> CopyEntryError(copies[k])]
           image == [k \in DOMAIN uploads |-> ImageEntryError(d, uploads[k])]
<1>1. /\ batch /\ RecordingError(d) = "none"
      /\ Live(Staging) /\ "transfer_src" \in Staging.config.usage
      /\ FirstError(buffer) = "none" /\ FirstError(image) = "none"
      /\ PairError = "none" /\ ImagePairError = "none"
  BY DEF RecordUploadError
<1>2. d \in Devices
  BY <1>1 DEF RecordingError
<1>3. /\ DOMAIN buffer = DOMAIN copies /\ DOMAIN image = DOMAIN uploads
      /\ DOMAIN copies \subseteq Nat /\ DOMAIN uploads \subseteq Nat
  BY DEF UploadInv, EntriesOfItems
<1>4. /\ \A k \in DOMAIN copies : buffer[k] = CopyEntryError(copies[k])
      /\ \A k \in DOMAIN uploads : image[k] = ImageEntryError(d, uploads[k])
  OBVIOUS
<1> HIDE DEF buffer, image
<1>5. \A k \in DOMAIN copies : buffer[k] = "none"
  BY <1>1, <1>3, NoErrors
<1>6. \A k \in DOMAIN uploads : image[k] = "none"
  BY <1>1, <1>3, NoErrors
<1> QED BY <1>1, <1>2, <1>4, <1>5, <1>6

(* The batch's staging buffer is as large as the spans in it.               *)
LEMMA StagingSize ==
    ASSUME UploadInv, Live(Staging)
    PROVE  /\ Staging \in BufferImpls /\ Staging.config.size = staging_bytes
           /\ staging_bytes \in Nat /\ staging_bytes <= MaxSize
<1> USE DEF UploadInv
<1>1. Staging \in BufferImpls
  BY BufferStands, UploadAssumption DEF Staging
<1>2. description.staging \in BufferConfigs /\ staging_bytes \in Sizes
  BY UploadAssumption DEF UploadTypeOK, InUse
<1>3. Staging.config.size = staging_bytes
  BY <1>2 DEF OwnerLives, StagingDescription, BufferConfigs
<1> QED BY <1>1, <1>2, <1>3, ResourcesAssumption DEF Sizes

LEMMA NativeCopyAccepted ==
    ASSUME UploadInv, NEW d \in Devices \cup {Null}, RecordUploadError(d) = "none",
           NEW k \in DOMAIN copies
    PROVE  CopyBufferError(d, Staging, Buffer(copies[k].destination),
                           BufferCommands[k].region) = "none"
<1> DEFINE r == BufferCommands[k].region
           target == Buffer(copies[k].destination)
<1>1. /\ r.src_offset = copies[k].staging_offset /\ r.dst_offset = copies[k].destination_offset
      /\ r.size = copies[k].size
  BY DEF BufferCommands
<1>2. /\ RecordingError(d) = "none" /\ Live(Staging)
      /\ "transfer_src" \in Staging.config.usage
      /\ CopyEntryError(copies[k]) = "none"
  BY Validated
<1>3. /\ Live(target) /\ "transfer_dst" \in target.config.usage
      /\ Within(Staging.config.size, r.src_offset, r.size)
      /\ Within(target.config.size, r.dst_offset, r.size)
  BY <1>1, <1>2 DEF CopyEntryError
<1>4. r.size # 0
  BY <1>3 DEF Within
<1> HIDE DEF r, target
<1>5. CopyBufferError(d, Staging, target, r) = "none"
  BY <1>2, <1>3, <1>4 DEF CopyBufferError
<1> QED BY <1>5 DEF r, target

LEMMA NativeImageCopyAccepted ==
    ASSUME UploadInv, NEW d \in Devices \cup {Null}, RecordUploadError(d) = "none",
           NEW k \in DOMAIN uploads
    PROVE  CopyImageError(d, Staging, Image(uploads[k].destination), "transfer_src",
                          "transfer_dst", uploads[k].region) = "none"
<1> DEFINE r == uploads[k].region
           target == Image(uploads[k].destination)
           size == uploads[k].bytes
<1>1. /\ RecordingError(d) = "none" /\ Live(Staging)
      /\ "transfer_src" \in Staging.config.usage
      /\ ImageEntryError(d, uploads[k]) = "none"
  BY Validated
<1>2. /\ Live(target) /\ DeviceOf[target.allocator] = d
      /\ "transfer_dst" \in target.config.usage
      /\ ValidImageRegion(target.config, r)
      /\ Within(Staging.config.size, r.buffer_offset, size)
  BY <1>1 DEF ImageEntryError
<1>3. r.plain /\ InsideMip(target.config, r)
  BY <1>2 DEF ValidImageRegion
<1>4. r.buffer_offset < Staging.config.size
  <2>1. uploads[k] \in PreparedImageUploads
    BY DEF UploadInv, EntriesOfItems
  <2>2. r.buffer_offset \in Nat /\ size \in Nat
    BY <2>1 DEF PreparedImageUploads, Regions
  <2> QED BY <1>1, <1>2, <2>2, StagingSize DEF Within
<1> HIDE DEF r, target
<1>5. ~(r.buffer_offset >= Staging.config.size)
  <2>1. uploads[k] \in PreparedImageUploads
    BY DEF UploadInv, EntriesOfItems
  <2>2. r.buffer_offset \in Nat
    BY <2>1 DEF PreparedImageUploads, Regions, r
  <2> QED BY <1>1, <1>4, <2>2, StagingSize
<1>6. CopyImageError(d, Staging, target, "transfer_src", "transfer_dst", r) = "none"
  BY <1>1, <1>2, <1>3, <1>5 DEF CopyImageError
<1> QED BY <1>6 DEF r, target

(* Once everything was validated, every native call succeeds.               *)
LEMMA RecordsWhole ==
    ASSUME UploadInv, RecordUpload
    PROVE  \/ recorded' = recorded
           \/ /\ outcome' = "ok" /\ Live(Staging) /\ Recordable
              /\ recorded' = Append(recorded, BufferCommands \o ImageCommands)
<1>1. PICK d \in Devices \cup {Null} :
        \/ recorded' = recorded
        \/ /\ RecordUploadError(d) = "none"
           /\ RecordAll(BufferCommands \o ImageCommands,
                [k \in DOMAIN copies |-> CopyBufferError(d, Staging, Buffer(copies[k].destination),
                                                         BufferCommands[k].region)] \o
                [k \in DOMAIN uploads |->
                    CopyImageError(d, Staging, Image(uploads[k].destination), "transfer_src",
                                   "transfer_dst", uploads[k].region)])
  BY DEF RecordUpload
<1>2. SUFFICES ASSUME recorded' # recorded
      PROVE  /\ outcome' = "ok" /\ Live(Staging) /\ Recordable
             /\ recorded' = Append(recorded, BufferCommands \o ImageCommands)
  OBVIOUS
<1> DEFINE buffer == [k \in DOMAIN copies |->
                         CopyBufferError(d, Staging, Buffer(copies[k].destination),
                                         BufferCommands[k].region)]
           image == [k \in DOMAIN uploads |->
                        CopyImageError(d, Staging, Image(uploads[k].destination), "transfer_src",
                                       "transfer_dst", uploads[k].region)]
<1>3. RecordUploadError(d) = "none" /\ RecordAll(BufferCommands \o ImageCommands, buffer \o image)
  BY <1>1, <1>2
<1>4. \A k \in DOMAIN copies : buffer[k] = "none"
  BY <1>3, NativeCopyAccepted
<1>5. \A k \in DOMAIN uploads : image[k] = "none"
  BY <1>3, NativeImageCopyAccepted
<1>6. /\ DOMAIN copies = 1..Len(copies) /\ Len(copies) \in Nat
      /\ DOMAIN uploads = 1..Len(uploads) /\ Len(uploads) \in Nat
      /\ DOMAIN buffer = DOMAIN copies /\ DOMAIN image = DOMAIN uploads
  BY DEF UploadInv, EntriesOfItems
<1>7. buffer \in [1..Len(copies) -> {"none"}] /\ image \in [1..Len(uploads) -> {"none"}]
  BY <1>4, <1>5, <1>6
<1> HIDE DEF buffer, image
<1>8. buffer \in Seq({"none"}) /\ image \in Seq({"none"})
  BY <1>6, <1>7
<1>9. \A k \in DOMAIN (buffer \o image) : (buffer \o image)[k] = "none"
  <2>1. buffer \o image \in Seq({"none"})
    BY <1>8
  <2> QED BY <2>1
<1>10. outcome' = "ok" /\ recorded' = Append(recorded, BufferCommands \o ImageCommands)
  BY <1>3, <1>9, RecordsAll
<1>11. Live(Staging) /\ Recordable
  BY <1>3, Validated DEF Recordable
<1> QED BY <1>10, <1>11

LEMMA RecordUploadKeeps ==
    ASSUME UploadInv, OwnersInv', Accepted', RecordUpload
    PROVE  UploadInv'
<1>1. UNCHANGED <<buffers, images, copies, uploads, prepareVars, entryVars, memoryVars, batch>>
  BY DEF RecordUpload, ownerVars, uploadVars, entryVars
<1>2. Recording'
  <2>1. CASE recorded' = recorded
    BY <1>1, <2>1, RecordingStays DEF UploadInv
  <2>2. CASE recorded' # recorded
    <3> DEFINE commands == BufferCommands \o ImageCommands
    <3>1. Live(Staging) /\ Recordable /\ recorded' = Append(recorded, commands)
      BY <2>2, RecordsWhole
    <3>2. recorded \in Seq({commands})
      BY DEF UploadInv, Recording
    <3>3. recorded' \in Seq({commands})
      <4> HIDE DEF commands
      <4> QED BY <3>1, <3>2
    <3>4. commands' = commands
      BY <1>1, CommandsStay
    <3>5. Live(Staging)' /\ Recordable'
      BY <1>1, <3>1, CommandsStay
    <3> QED BY <3>3, <3>4, <3>5 DEF Recording
  <2> QED BY <2>1, <2>2
<1> QED BY <1>1, <1>2, Elsewhere

(* The application replaces what other wrappers hold.                       *)
LEMMA TargetsChange ==
    ASSUME UploadInv, OwnersInv', Accepted', BufferTargetChanges \/ ImageTargetChanges
    PROVE  UploadInv'
<1>1. /\ recorded = <<>> /\ recorded' = recorded
      /\ UNCHANGED <<prepareVars, entryVars, memoryVars, batch>>
  BY DEF BufferTargetChanges, ImageTargetChanges, commandVars, uploadVars
<1>2. buffers \in [Buffers -> BufferImpls \cup {Null}]
  BY DEF UploadInv, OwnersInv, ResourcesTypeOK
<1>3. buffers'[Local] = buffers[Local] /\ buffers'[Owner] = buffers[Owner]
  <2>1. CASE ImageTargetChanges
    BY <2>1 DEF ImageTargetChanges, CreateImage, DestroyImage, MoveImage
  <2>2. CASE BufferTargetChanges
    <3>1. \E b, c \in Targets : \A x \in Buffers \ {b, c} : buffers'[x] = buffers[x]
      BY <1>2, <2>2
      DEF BufferTargetChanges, CreateBuffer, DestroyBuffer, EndBuffer, MoveBuffer, Targets
    <3> QED BY <3>1, UploadAssumption DEF Targets
  <2> QED BY <2>1, <2>2
<1> QED BY <1>1, <1>2, <1>3, NothingRecorded, Elsewhere

(* Nothing that the invariant speaks of changes, or the recorded commands   *)
(* or the batch are gone.                                                   *)
LEMMA NothingNew ==
    ASSUME UploadInv, OwnersInv', Accepted',
           PrepareRejected \/ RetireBatch \/ CommandChanges \/ UNCHANGED vars
    PROVE  UploadInv'
<1>1. /\ UNCHANGED <<buffers, images, copies, uploads>>
      /\ UNCHANGED <<prepareVars, entryVars, memoryVars>>
      /\ recorded' = recorded \/ recorded' = <<>>
      /\ batch' = batch \/ batch' = FALSE
  BY DEF PrepareRejected, RetireBatch, CommandChanges, BeginCommand, FinishCommand, vars,
         resourceVars, ownerVars, commandVars, uploadVars, entryVars
<1>2. Recording'
  BY <1>1, RecordingStays DEF UploadInv
<1> QED BY <1>1, <1>2, Elsewhere

-----------------------------------------------------------------------------
(* What was recorded                                                       *)

(* One recording call left the commands of all entries, first those of the  *)
(* copies, and they have not become illegal since.                          *)
LEMMA RecordedAre ==
    ASSUME UploadInv, NEW n \in DOMAIN recorded
    PROVE  /\ recorded[n] = BufferCommands \o ImageCommands
           /\ Live(Staging) /\ Recordable
           /\ DOMAIN recorded[n] = 1..Len(copies) + Len(uploads)
           /\ \A k \in DOMAIN copies : recorded[n][k] = BufferCommands[k]
           /\ \A k \in DOMAIN uploads : recorded[n][Len(copies) + k] = ImageCommands[k]
<1> DEFINE all == BufferCommands \o ImageCommands
<1>1. recorded[n] = all /\ recorded # <<>>
  <2>1. recorded \in Seq({all})
    BY DEF UploadInv, Recording
  <2> HIDE DEF all
  <2> QED BY <2>1
<1>2. Live(Staging) /\ Recordable
  BY <1>1 DEF UploadInv, Recording
<1> DEFINE c == Len(copies)
           u == Len(uploads)
           S == {BufferCommands[k] : k \in 1..c} \cup {ImageCommands[k] : k \in 1..u}
<1>3. /\ c \in Nat /\ u \in Nat /\ DOMAIN copies = 1..c /\ DOMAIN uploads = 1..u
  BY DEF UploadInv, EntriesOfItems
<1>4. BufferCommands \in [1..c -> S] /\ ImageCommands \in [1..u -> S]
  <2>1. BufferCommands = [k \in 1..c |-> BufferCommands[k]]
    BY <1>3 DEF BufferCommands
  <2>2. ImageCommands = [k \in 1..u |-> ImageCommands[k]]
    BY <1>3 DEF ImageCommands
  <2>3. \A k \in 1..c : BufferCommands[k] \in S
    OBVIOUS
  <2>4. \A k \in 1..u : ImageCommands[k] \in S
    OBVIOUS
  <2> HIDE DEF S, c, u
  <2> QED BY <2>1, <2>2, <2>3, <2>4
<1> HIDE DEF S, c, u
<1>5. /\ DOMAIN all = 1..c + u
      /\ \A k \in 1..c : all[k] = BufferCommands[k]
      /\ \A k \in 1..u : all[c + k] = ImageCommands[k]
  BY <1>3, <1>4, Joined
<1> HIDE DEF all
<1> QED BY <1>1, <1>2, <1>3, <1>5 DEF all, c, u

(* A recorded command is that of one entry.                                 *)
LEMMA RecordedIs ==
    ASSUME UploadInv, NEW n \in DOMAIN recorded, NEW c \in Range(recorded[n])
    PROVE  \/ \E k \in DOMAIN copies : c = BufferCommands[k]
           \/ \E k \in DOMAIN uploads : c = ImageCommands[k]
<1>1. PICK j \in 1..Len(copies) + Len(uploads) : c = recorded[n][j]
  BY RecordedAre DEF Range
<1>2. /\ Len(copies) \in Nat /\ Len(uploads) \in Nat
      /\ DOMAIN copies = 1..Len(copies) /\ DOMAIN uploads = 1..Len(uploads)
  BY DEF UploadInv, EntriesOfItems
<1>3. CASE j <= Len(copies)
  <2>1. j \in DOMAIN copies
    BY <1>2, <1>3
  <2> QED BY <1>1, <2>1, RecordedAre
<1>4. CASE ~(j <= Len(copies))
  <2>1. j - Len(copies) \in DOMAIN uploads /\ Len(copies) + (j - Len(copies)) = j
    BY <1>2, <1>4
  <2> QED BY <1>1, <2>1, RecordedAre
<1> QED BY <1>3, <1>4

(* Where the spans of the entries lie.                                      *)
LEMMA EntrySpans ==
    ASSUME UploadInv
    PROVE  /\ Spans \in Seq(SpanTypes) /\ Contiguous(Spans, staging_bytes) /\ staging_bytes \in Nat
           /\ Len(copies) \in Nat /\ DOMAIN copies = 1..Len(copies)
           /\ Len(uploads) \in Nat /\ DOMAIN uploads = 1..Len(uploads)
           /\ \A k \in DOMAIN copies :
                /\ k \in DOMAIN Spans
                /\ Spans[k].offset = copies[k].staging_offset /\ Spans[k].size = copies[k].size
                /\ Spans[k].offset \in Nat /\ Spans[k].size \in Nat
           /\ \A k \in DOMAIN uploads :
                /\ Len(copies) + k \in DOMAIN Spans
                /\ Spans[Len(copies) + k].offset = uploads[k].region.buffer_offset
                /\ Spans[Len(copies) + k].size = uploads[k].bytes
                /\ Spans[Len(copies) + k].offset \in Nat /\ Spans[Len(copies) + k].size \in Nat
<1> DEFINE m == Len(copies)
<1>1. Spans = SpansOf(copies, uploads)
  BY DEF Spans, SpansOf, SpanOf
<1>2. /\ Spans \in Seq(SpanTypes) /\ Len(Spans) = m + Len(uploads)
      /\ \A k \in DOMAIN copies : Spans[k] = SpanOf(copies[k].staging_offset, copies[k].size)
      /\ \A k \in DOMAIN uploads :
           Spans[m + k] = SpanOf(uploads[k].region.buffer_offset, uploads[k].bytes)
  BY <1>1, SpansAre DEF UploadInv, EntriesOfItems
<1>3. /\ m \in Nat /\ DOMAIN copies = 1..m
      /\ Len(uploads) \in Nat /\ DOMAIN uploads = 1..Len(uploads)
      /\ DOMAIN Spans = 1..m + Len(uploads)
  BY <1>2 DEF UploadInv, EntriesOfItems
<1>4. Contiguous(Spans, staging_bytes) /\ staging_bytes \in Nat
  BY ResourcesAssumption DEF UploadInv, UploadTypeOK, Sizes
<1>5. \A offset, size : SpanOf(offset, size).offset = offset /\ SpanOf(offset, size).size = size
  BY DEF SpanOf
<1>6. \A k \in DOMAIN Spans : Spans[k].offset \in Nat /\ Spans[k].size \in Nat
  <2> TAKE k \in DOMAIN Spans
  <2>1. Spans[k] \in SpanTypes
    BY <1>2
  <2> QED BY <2>1 DEF SpanTypes
<1> HIDE DEF m
<1>7. /\ \A k \in DOMAIN copies : k \in DOMAIN Spans
      /\ \A k \in DOMAIN uploads : m + k \in DOMAIN Spans
  BY <1>3
<1> QED BY <1>2, <1>3, <1>4, <1>5, <1>6, <1>7 DEF m

(* No place in the staging buffer belongs to two spans.                     *)
LEMMA SpansApart ==
    ASSUME NEW spans \in Seq(SpanTypes), NEW total, Contiguous(spans, total),
           NEW j \in DOMAIN spans, NEW k \in DOMAIN spans, NEW i \in Int,
           spans[j].offset <= i, i < spans[j].offset + spans[j].size,
           spans[k].offset <= i, i < spans[k].offset + spans[k].size
    PROVE  j = k
<1>1. /\ spans[j].offset \in Nat /\ spans[j].size \in Nat
      /\ spans[k].offset \in Nat /\ spans[k].size \in Nat
  <2>1. spans[j] \in SpanTypes /\ spans[k] \in SpanTypes
    OBVIOUS
  <2> QED BY <2>1 DEF SpanTypes
<1>2. j \in Nat /\ k \in Nat
  OBVIOUS
<1>3. /\ j < k => spans[j].offset + spans[j].size <= spans[k].offset
      /\ k < j => spans[k].offset + spans[k].size <= spans[j].offset
  BY DEF Contiguous
<1> QED BY <1>1, <1>2, <1>3

LEMMA MaxOfOne ==
    ASSUME NEW k \in Nat
    PROVE  Max({k}) = k
BY DEF Max

(* The places of a span lie below all that it lies below.                   *)
LEMMA PlaceInside ==
    ASSUME NEW offset \in Nat, NEW size \in Nat, NEW total \in Nat, offset + size <= total,
           NEW i \in Int, 0 <= i, i < size
    PROVE  offset + i \in 0..total - 1
OBVIOUS

(* The span of a copy holds the bytes of its item.                          *)
LEMMA CopyIsPacked ==
    ASSUME UploadInv, NEW k \in DOMAIN copies, NEW i \in 0..copies[k].size - 1
    PROVE  /\ copies[k].staging_offset + i \in 0..staging_bytes - 1
           /\ Packed(copies[k].staging_offset + i) = <<"buffer", k, i>>
<1> DEFINE place == copies[k].staging_offset + i
           m == Len(copies)
           InUpload(j) == place \in uploads[j].region.buffer_offset
                                      ..uploads[j].region.buffer_offset + uploads[j].bytes - 1
<1>1. /\ m \in Nat /\ DOMAIN copies = 1..m /\ DOMAIN uploads = 1..Len(uploads)
      /\ Len(uploads) \in Nat
      /\ Spans \in Seq(SpanTypes) /\ Contiguous(Spans, staging_bytes) /\ staging_bytes \in Nat
  BY EntrySpans
<1>2. \A j \in DOMAIN copies :
        /\ j \in DOMAIN Spans /\ Spans[j].offset = copies[j].staging_offset
        /\ Spans[j].size = copies[j].size /\ Spans[j].offset \in Nat /\ Spans[j].size \in Nat
  BY EntrySpans
<1>3. \A j \in DOMAIN uploads :
        /\ m + j \in DOMAIN Spans /\ Spans[m + j].offset = uploads[j].region.buffer_offset
        /\ Spans[m + j].size = uploads[j].bytes
        /\ Spans[m + j].offset \in Nat /\ Spans[m + j].size \in Nat
  BY EntrySpans
<1>4. i \in Int /\ 0 <= i /\ i < copies[k].size /\ place \in Int
  BY <1>2
<1>5. place \in 0..staging_bytes - 1
  <2>1. Spans[k].offset + Spans[k].size <= staging_bytes
    BY <1>1, <1>2 DEF Contiguous
  <2>2. copies[k].staging_offset \in Nat /\ copies[k].size \in Nat
    BY <1>2
  <2> QED BY <1>1, <1>2, <1>4, <2>1, <2>2, PlaceInside
<1>6. {j \in DOMAIN copies :
         place \in copies[j].staging_offset..copies[j].staging_offset + copies[j].size - 1} = {k}
  <2>1. ASSUME NEW j \in DOMAIN copies,
               place \in copies[j].staging_offset..copies[j].staging_offset + copies[j].size - 1
        PROVE  j = k
    <3>1. Spans[j].offset <= place /\ place < Spans[j].offset + Spans[j].size
      BY <1>2, <1>4, <2>1
    <3>2. Spans[k].offset <= place /\ place < Spans[k].offset + Spans[k].size
      BY <1>2, <1>4
    <3> HIDE DEF place
    <3> QED BY <1>1, <1>2, <1>4, <3>1, <3>2, SpansApart
  <2>2. place \in copies[k].staging_offset..copies[k].staging_offset + copies[k].size - 1
    BY <1>2, <1>4
  <2> HIDE DEF place
  <2> QED BY <2>1, <2>2
<1>7. {j \in DOMAIN uploads : InUpload(j)} = {}
  <2> SUFFICES ASSUME NEW j \in DOMAIN uploads, InUpload(j) PROVE FALSE
    OBVIOUS
  <2>1. Spans[m + j].offset <= place /\ place < Spans[m + j].offset + Spans[m + j].size
    BY <1>3, <1>4
  <2>2. Spans[k].offset <= place /\ place < Spans[k].offset + Spans[k].size
    BY <1>2, <1>4
  <2>3. m + j = k
    <3> HIDE DEF place, m
    <3> QED BY <1>1, <1>2, <1>3, <1>4, <2>1, <2>2, SpansApart
  <2> QED BY <1>1, <2>3
<1>8. Packed(place) = <<"buffer", k, place - copies[k].staging_offset>>
  <2>1. Max({k}) = k
    BY <1>1, MaxOfOne
  <2> HIDE DEF place
  <2> QED BY <1>6, <1>7, <2>1 DEF Packed
<1>9. place - copies[k].staging_offset = i
  BY <1>2, <1>4
<1> QED BY <1>5, <1>8, <1>9

(* So does that of an upload.                                               *)
LEMMA UploadIsPacked ==
    ASSUME UploadInv, NEW k \in DOMAIN uploads, NEW i \in 0..uploads[k].bytes - 1
    PROVE  /\ uploads[k].region.buffer_offset + i \in 0..staging_bytes - 1
           /\ Packed(uploads[k].region.buffer_offset + i) = <<"image", k, i>>
<1> DEFINE place == uploads[k].region.buffer_offset + i
           m == Len(copies)
           InUpload(j) == place \in uploads[j].region.buffer_offset
                                      ..uploads[j].region.buffer_offset + uploads[j].bytes - 1
<1>1. /\ m \in Nat /\ DOMAIN copies = 1..m /\ DOMAIN uploads = 1..Len(uploads)
      /\ Len(uploads) \in Nat
      /\ Spans \in Seq(SpanTypes) /\ Contiguous(Spans, staging_bytes) /\ staging_bytes \in Nat
  BY EntrySpans
<1>2. \A j \in DOMAIN copies :
        /\ j \in DOMAIN Spans /\ Spans[j].offset = copies[j].staging_offset
        /\ Spans[j].size = copies[j].size /\ Spans[j].offset \in Nat /\ Spans[j].size \in Nat
  BY EntrySpans
<1>3. \A j \in DOMAIN uploads :
        /\ m + j \in DOMAIN Spans /\ Spans[m + j].offset = uploads[j].region.buffer_offset
        /\ Spans[m + j].size = uploads[j].bytes
        /\ Spans[m + j].offset \in Nat /\ Spans[m + j].size \in Nat
  BY EntrySpans
<1>4. i \in Int /\ 0 <= i /\ i < uploads[k].bytes /\ place \in Int
  BY <1>3
<1>5. place \in 0..staging_bytes - 1
  <2>1. Spans[m + k].offset + Spans[m + k].size <= staging_bytes
    BY <1>1, <1>3 DEF Contiguous
  <2>2. uploads[k].region.buffer_offset \in Nat /\ uploads[k].bytes \in Nat
    BY <1>3
  <2> QED BY <1>1, <1>3, <1>4, <2>1, <2>2, PlaceInside
<1>6. {j \in DOMAIN uploads : InUpload(j)} = {k}
  <2>1. ASSUME NEW j \in DOMAIN uploads, InUpload(j) PROVE j = k
    <3>1. Spans[m + j].offset <= place /\ place < Spans[m + j].offset + Spans[m + j].size
      BY <1>3, <1>4, <2>1
    <3>2. Spans[m + k].offset <= place /\ place < Spans[m + k].offset + Spans[m + k].size
      BY <1>3, <1>4
    <3>3. m + j = m + k
      <4> HIDE DEF place, m
      <4> QED BY <1>1, <1>3, <1>4, <3>1, <3>2, SpansApart
    <3> QED BY <1>1, <3>3
  <2>2. InUpload(k)
    BY <1>3, <1>4
  <2> HIDE DEF place
  <2> QED BY <2>1, <2>2
<1>7. Packed(place) = <<"image", k, place - uploads[k].region.buffer_offset>>
  <2>1. Max({k}) = k
    BY <1>1, MaxOfOne
  <2> HIDE DEF place
  <2> QED BY <1>6, <2>1 DEF Packed
<1>8. place - uploads[k].region.buffer_offset = i
  BY <1>3, <1>4
<1> QED BY <1>5, <1>7, <1>8

(* The fields of the commands.                                              *)
LEMMA BufferCommandIs ==
    ASSUME NEW k \in DOMAIN copies
    PROVE  /\ BufferCommands[k].item = <<"buffer", k>>
           /\ BufferCommands[k].src = Staging.handle
           /\ BufferCommands[k].dst = Buffer(copies[k].destination).handle
           /\ BufferCommands[k].region.src_offset = copies[k].staging_offset
           /\ BufferCommands[k].region.dst_offset = copies[k].destination_offset
           /\ BufferCommands[k].region.size = copies[k].size
BY DEF BufferCommands

LEMMA ImageCommandIs ==
    ASSUME NEW k \in DOMAIN uploads
    PROVE  /\ ImageCommands[k].item = <<"image", k>>
           /\ ImageCommands[k].src = Staging.handle
           /\ ImageCommands[k].dst = Image(uploads[k].destination).handle
           /\ ImageCommands[k].layout = uploads[k].layout
           /\ ImageCommands[k].region = uploads[k].region
BY DEF ImageCommands

(* The buffer of a recorded copy exists, is the only one with its handle,   *)
(* and has room for the copy.                                               *)
LEMMA CopyDestination ==
    ASSUME UploadInv, Recordable, Live(Staging), NEW k \in DOMAIN copies
    PROVE  /\ copies[k].destination \in Buffers /\ Live(buffers[copies[k].destination])
           /\ Buffer(copies[k].destination) = buffers[copies[k].destination]
           /\ BufferOf(Buffer(copies[k].destination).handle) = Buffer(copies[k].destination)
           /\ Buffer(copies[k].destination).config.size \in Nat
           /\ Within(Buffer(copies[k].destination).config.size,
                     copies[k].destination_offset, copies[k].size)
           /\ copies[k].destination_offset \in Nat /\ copies[k].size \in Nat
<1> DEFINE b == copies[k].destination
<1>1. /\ Live(Buffer(b))
      /\ Within(Buffer(b).config.size, copies[k].destination_offset, copies[k].size)
  <2>1. CopyEntryError(copies[k]) = "none"
    BY DEF Recordable
  <2> QED BY <2>1 DEF CopyEntryError
<1>2. copies[k] \in PreparedBufferUploads
  BY DEF UploadInv, EntriesOfItems
<1>3. b # Null /\ Buffer(b) = buffers[b]
  BY <1>1 DEF Buffer, Live
<1>4. /\ b \in Buffers /\ copies[k].destination_offset \in Nat /\ copies[k].size \in Nat
  BY <1>2, <1>3 DEF PreparedBufferUploads
<1>5. buffers[b] \in BufferImpls
  BY <1>1, <1>3, <1>4, BufferStands DEF UploadInv
<1>6. buffers[b].config.size \in Nat
  BY <1>5, ResourcesAssumption DEF BufferImpls, BufferConfigs, Sizes
<1>7. BufferOf(buffers[b].handle) = buffers[b]
  <2>1. \A c \in Buffers : Live(buffers[c]) /\ buffers[c].handle = buffers[b].handle => c = b
    BY <1>1, <1>3, <1>4 DEF UploadInv, OwnersInv, OneOwnerEach
  <2>2. \A x \in {buffers[c] : c \in Buffers} :
          Live(x) /\ x.handle = buffers[b].handle <=> x = buffers[b]
    BY <1>1, <1>3, <1>4, <2>1
  <2>3. buffers[b] \in {buffers[c] : c \in Buffers}
    BY <1>4
  <2> HIDE DEF b
  <2> QED BY <2>2, <2>3 DEF BufferOf
<1> QED BY <1>1, <1>3, <1>4, <1>6, <1>7

LEMMA UploadDestination ==
    ASSUME UploadInv, Recordable, Live(Staging), NEW k \in DOMAIN uploads
    PROVE  /\ uploads[k].destination \in Images /\ Live(images[uploads[k].destination])
           /\ Image(uploads[k].destination) = images[uploads[k].destination]
           /\ Image(uploads[k].destination).handle = uploads[k].image
           /\ ImageOf(uploads[k].image) = Image(uploads[k].destination)
           /\ Image(uploads[k].destination).config \in ImageDescriptions
           /\ Image(uploads[k].destination).config.refused = "none"
           /\ InsideMip(Image(uploads[k].destination).config, uploads[k].region)
           /\ UploadFootprint(uploads[k].region) = uploads[k].bytes
           /\ uploads[k].region \in Regions /\ uploads[k].bytes \in Nat
           /\ Within(Staging.config.size, uploads[k].region.buffer_offset, uploads[k].bytes)
<1> DEFINE i == uploads[k].destination
<1>1. /\ Live(Image(i)) /\ Image(i).handle = uploads[k].image
      /\ InsideMip(Image(i).config, uploads[k].region)
      /\ UploadFootprint(uploads[k].region) = uploads[k].bytes
      /\ Within(Staging.config.size, uploads[k].region.buffer_offset, uploads[k].bytes)
  <2>1. PICK d \in Devices : ImageEntryError(d, uploads[k]) = "none"
    BY DEF Recordable
  <2>2. /\ Live(Image(i)) /\ Image(i).handle = uploads[k].image
        /\ ValidImageRegion(Image(i).config, uploads[k].region)
        /\ UploadFootprint(uploads[k].region) = uploads[k].bytes
        /\ Within(Staging.config.size, uploads[k].region.buffer_offset, uploads[k].bytes)
    BY <2>1 DEF ImageEntryError
  <2> QED BY <2>2 DEF ValidImageRegion
<1>2. uploads[k] \in PreparedImageUploads
  BY DEF UploadInv, EntriesOfItems
<1>3. i # Null /\ Image(i) = images[i]
  BY <1>1 DEF Image, Live
<1>4. /\ i \in Images /\ uploads[k].region \in Regions /\ uploads[k].bytes \in Nat
  BY <1>2, <1>3 DEF PreparedImageUploads
<1>5. images[i] \in ImageImpls /\ images[i].config.refused = "none"
  BY <1>1, <1>3, <1>4, ImageStands DEF UploadInv, Accepted
<1>6. images[i].config \in ImageDescriptions
  BY <1>5 DEF ImageImpls
<1>7. ImageOf(uploads[k].image) = images[i]
  <2>1. \A j \in Images : Live(images[j]) /\ images[j].handle = images[i].handle => j = i
    BY <1>1, <1>3, <1>4 DEF UploadInv, OwnersInv, OneOwnerEach
  <2>2. \A x \in {images[j] : j \in Images} :
          Live(x) /\ x.handle = uploads[k].image <=> x = images[i]
    BY <1>1, <1>3, <1>4, <2>1
  <2>3. images[i] \in {images[j] : j \in Images}
    BY <1>4
  <2> HIDE DEF i
  <2> QED BY <2>2, <2>3 DEF ImageOf
<1> QED BY <1>1, <1>3, <1>4, <1>5, <1>6, <1>7

(* Every byte of the staging buffer is in memory that the GPU reads.        *)
LEMMA DeviceHolds ==
    ASSUME UploadInv, Live(Staging)
    PROVE  /\ DOMAIN device = 0..staging_bytes - 1
           /\ \A i \in 0..staging_bytes - 1 : device[i] = Packed(i)
<1>1. device = [i \in 0..staging_bytes - 1 |-> Packed(i)]
  BY DEF UploadInv, MemoryHolds
<1> QED BY <1>1

(* A recorded command stays inside the objects it copies between.           *)
LEMMA RecordedValid ==
    ASSUME UploadInv, NEW n \in DOMAIN recorded, NEW c \in Range(recorded[n])
    PROVE  ValidCommand(c)
<1>1. Live(Staging) /\ Recordable
  BY RecordedAre
<1>2. /\ staging_bytes \in Nat /\ staging_bytes <= MaxSize
      /\ Staging.config.size = staging_bytes /\ MaxSize \in Nat
  BY <1>1, StagingSize, ResourcesAssumption
<1>3. Cells(0, staging_bytes) = DOMAIN device
  BY <1>1, <1>2, DeviceHolds DEF Cells
<1>4. ASSUME NEW k \in DOMAIN copies, c = BufferCommands[k] PROVE ValidCommand(c)
  <2>1. /\ c.item[1] = "buffer" /\ c.dst = Buffer(copies[k].destination).handle
        /\ c.region.src_offset = copies[k].staging_offset
        /\ c.region.dst_offset = copies[k].destination_offset /\ c.region.size = copies[k].size
    BY <1>4, BufferCommandIs
  <2>2. /\ BufferOf(c.dst) = Buffer(copies[k].destination) /\ BufferOf(c.dst).config.size \in Nat
        /\ Within(BufferOf(c.dst).config.size, c.region.dst_offset, c.region.size)
        /\ c.region.dst_offset \in Nat /\ c.region.size \in Nat
    BY <1>1, <2>1, CopyDestination
  <2>3. BufferBytes(c) \subseteq Cells(0, BufferOf(c.dst).config.size)
    BY <2>2, CellsInside DEF BufferBytes
  <2>4. Within(staging_bytes, c.region.src_offset, c.region.size) /\ c.region.src_offset \in Nat
    <3>1. CopyEntryError(copies[k]) = "none"
      BY <1>1 DEF Recordable
    <3>2. copies[k] \in PreparedBufferUploads
      BY DEF UploadInv, EntriesOfItems
    <3>3. copies[k].staging_offset \in Nat
      BY <3>2 DEF PreparedBufferUploads
    <3>4. Within(Staging.config.size, copies[k].staging_offset, copies[k].size)
      BY <3>1 DEF CopyEntryError
    <3> QED BY <1>2, <2>1, <3>3, <3>4
  <2>5. Cells(c.region.src_offset, c.region.size) \subseteq DOMAIN device
    BY <1>2, <1>3, <2>2, <2>4, CellsInside
  <2> QED BY <2>1, <2>3, <2>5 DEF ValidCommand
<1>5. ASSUME NEW k \in DOMAIN uploads, c = ImageCommands[k] PROVE ValidCommand(c)
  <2> DEFINE config == Image(uploads[k].destination).config
             r == uploads[k].region
  <2>1. c.item[1] = "image" /\ c.dst = Image(uploads[k].destination).handle /\ c.region = r
    BY <1>5, ImageCommandIs
  <2>2. /\ ImageOf(c.dst).config = config /\ config \in ImageDescriptions
        /\ config.refused = "none" /\ InsideMip(config, r)
        /\ UploadFootprint(r) = uploads[k].bytes /\ r \in Regions /\ uploads[k].bytes \in Nat
        /\ Within(Staging.config.size, r.buffer_offset, uploads[k].bytes)
    BY <1>1, <2>1, UploadDestination
  <2> HIDE DEF config, r
  <2>3. /\ r.mip \in Nat /\ r.x \in Int /\ r.y \in Int /\ r.width \in Nat /\ r.height \in Nat
        /\ r.buffer_offset \in Nat
    BY <2>2 DEF Regions
  <2>4. r.mip < config.mip_levels /\ r.width # 0 /\ r.height # 0
    BY <2>2 DEF InsideMip
  <2>5. Texels(c) \subseteq MipTexels(ImageOf(c.dst).config, c.region.mip)
    <3>1. /\ Cells(r.x, r.width) \subseteq Cells(0, LevelSize(config.width, r.mip))
          /\ Cells(r.y, r.height) \subseteq Cells(0, LevelSize(config.height, r.mip))
      BY <2>2, RegionInside
    <3> QED BY <2>1, <2>2, <3>1 DEF Texels, MipTexels
  <2>6. Cells(r.buffer_offset, (RowTexels(r) * (r.height - 1) + r.width) * Texel)
          \subseteq DOMAIN device
    <3>1. uploads[k].bytes # Overflow
      BY <1>2, <2>2, <2>3 DEF Within, Overflow
    <3>2. uploads[k].bytes = (RowTexels(r) * (r.height - 1) + r.width) * Texel
      BY <2>2, <2>4, <3>1, UploadFootprintIs
    <3>3. Cells(r.buffer_offset, uploads[k].bytes) \subseteq Cells(0, staging_bytes)
      BY <1>2, <2>2, <2>3, CellsInside
    <3> QED BY <1>3, <3>2, <3>3
  <2> QED BY <2>1, <2>2, <2>4, <2>5, <2>6 DEF ValidCommand
<1> QED BY <1>4, <1>5, RecordedIs

(* Two copies of a recording write different bytes.                         *)
LEMMA CopiesApart ==
    ASSUME UploadInv, Live(Staging), Recordable,
           NEW j \in DOMAIN copies, NEW k \in DOMAIN copies, j # k
    PROVE  Compatible(BufferCommands[j], BufferCommands[k])
<1> DEFINE a == BufferCommands[j]
           b == BufferCommands[k]
           x == copies[j]
           y == copies[k]
<1>1. /\ a.item[1] = "buffer" /\ a.dst = Buffer(x.destination).handle
      /\ a.region.dst_offset = x.destination_offset /\ a.region.size = x.size
      /\ b.dst = Buffer(y.destination).handle
      /\ b.region.dst_offset = y.destination_offset /\ b.region.size = y.size
  BY BufferCommandIs
<1>2. /\ x.destination_offset \in Nat /\ x.size \in Nat
      /\ y.destination_offset \in Nat /\ y.size \in Nat
  BY CopyDestination
<1>3. SUFFICES ASSUME a.dst = b.dst PROVE BufferBytes(a) \cap BufferBytes(b) = {}
  BY <1>1 DEF Compatible
<1>4. \A m, n \in DOMAIN copies :
        m < n /\ Buffer(copies[m].destination).handle = Buffer(copies[n].destination).handle =>
          ~Overlaps(copies[m].destination_offset, copies[m].size,
                    copies[n].destination_offset, copies[n].size)
  BY DEF Recordable, PairError
<1>5. j < k \/ k < j
  BY DEF UploadInv, EntriesOfItems
<1>6. \/ ~Overlaps(x.destination_offset, x.size, y.destination_offset, y.size)
      \/ ~Overlaps(y.destination_offset, y.size, x.destination_offset, x.size)
  BY <1>1, <1>3, <1>4, <1>5
<1> HIDE DEF x, y, a, b
<1>7. Cells(x.destination_offset, x.size) \cap Cells(y.destination_offset, y.size) = {}
  BY <1>2, <1>6, CellsApart
<1> QED BY <1>1, <1>7 DEF BufferBytes

(* Two uploads of a recording write different texels, in one layout.        *)
LEMMA UploadsApart ==
    ASSUME UploadInv, Live(Staging), Recordable,
           NEW j \in DOMAIN uploads, NEW k \in DOMAIN uploads, j # k
    PROVE  Compatible(ImageCommands[j], ImageCommands[k])
<1> DEFINE a == ImageCommands[j]
           b == ImageCommands[k]
           x == uploads[j]
           y == uploads[k]
<1>1. /\ a.item[1] # "buffer" /\ a.dst = x.image /\ a.region = x.region /\ a.layout = x.layout
      /\ b.dst = y.image /\ b.region = y.region /\ b.layout = y.layout
  BY ImageCommandIs, UploadDestination
<1>2. x.region \in Regions /\ y.region \in Regions
  BY UploadDestination
<1>3. SUFFICES ASSUME a.dst = b.dst, a.region.mip = b.region.mip, a.region.layer = b.region.layer
      PROVE  Texels(a) \cap Texels(b) = {} /\ a.layout = b.layout
  BY <1>1 DEF Compatible
<1>4. \A m, n \in DOMAIN uploads : m < n /\ SameSubresource(uploads[m], uploads[n]) =>
        uploads[m].layout = uploads[n].layout /\ ~RegionsOverlap(uploads[m], uploads[n])
  BY DEF Recordable, ImagePairError
<1>5. j < k \/ k < j
  BY DEF UploadInv, EntriesOfItems
<1>6. SameSubresource(x, y) /\ SameSubresource(y, x)
  BY <1>1, <1>3 DEF SameSubresource
<1>7. x.layout = y.layout /\ (~RegionsOverlap(x, y) \/ ~RegionsOverlap(y, x))
  BY <1>4, <1>5, <1>6
<1> HIDE DEF x, y, a, b
<1>8. /\ x.region.x \in Int /\ x.region.y \in Int /\ x.region.width \in Nat /\ x.region.height \in Nat
      /\ y.region.x \in Int /\ y.region.y \in Int /\ y.region.width \in Nat /\ y.region.height \in Nat
  BY <1>2 DEF Regions
<1>9. \/ Cells(x.region.x, x.region.width) \cap Cells(y.region.x, y.region.width) = {}
      \/ Cells(x.region.y, x.region.height) \cap Cells(y.region.y, y.region.height) = {}
  <2>1. \/ ~Overlaps(x.region.x, x.region.width, y.region.x, y.region.width)
        \/ ~Overlaps(x.region.y, x.region.height, y.region.y, y.region.height)
        \/ ~Overlaps(y.region.x, y.region.width, x.region.x, x.region.width)
        \/ ~Overlaps(y.region.y, y.region.height, x.region.y, x.region.height)
    BY <1>6, <1>7 DEF RegionsOverlap
  <2> QED BY <1>8, <2>1, CellsApart
<1>10. Texels(a) \cap Texels(b) = {}
  BY <1>1, <1>9 DEF Texels
<1> QED BY <1>1, <1>7, <1>10

(* A buffer and an image are never the same native object.                  *)
LEMMA KindsApart ==
    ASSUME UploadInv, Live(Staging), Recordable,
           NEW j \in DOMAIN copies, NEW k \in DOMAIN uploads
    PROVE  BufferCommands[j].dst # ImageCommands[k].dst
<1>1. /\ BufferCommands[j].dst = buffers[copies[j].destination].handle
      /\ copies[j].destination \in Buffers /\ Live(buffers[copies[j].destination])
  BY BufferCommandIs, CopyDestination
<1>2. /\ ImageCommands[k].dst = images[uploads[k].destination].handle
      /\ uploads[k].destination \in Images /\ Live(images[uploads[k].destination])
  BY ImageCommandIs, UploadDestination
<1> QED BY <1>1, <1>2 DEF UploadInv, OwnersInv, OneOwnerEach

LEMMA RecordedCompatible ==
    ASSUME UploadInv, NEW n \in DOMAIN recorded,
           NEW j \in DOMAIN recorded[n], NEW k \in DOMAIN recorded[n], j # k
    PROVE  Compatible(recorded[n][j], recorded[n][k])
<1> DEFINE m == Len(copies)
<1>1. /\ m \in Nat /\ DOMAIN copies = 1..m
      /\ Len(uploads) \in Nat /\ DOMAIN uploads = 1..Len(uploads)
  BY DEF UploadInv, EntriesOfItems
<1>2. /\ Live(Staging) /\ Recordable /\ DOMAIN recorded[n] = 1..m + Len(uploads)
      /\ \A i \in DOMAIN copies : recorded[n][i] = BufferCommands[i]
      /\ \A i \in DOMAIN uploads : recorded[n][m + i] = ImageCommands[i]
  BY RecordedAre
<1> HIDE DEF m
<1>3. ASSUME NEW i \in DOMAIN recorded[n]
      PROVE  \/ i \in DOMAIN copies /\ recorded[n][i] = BufferCommands[i]
             \/ i - m \in DOMAIN uploads /\ recorded[n][i] = ImageCommands[i - m]
  <2>1. CASE i <= m
    BY <1>1, <1>2, <2>1
  <2>2. CASE ~(i <= m)
    <3>1. i - m \in DOMAIN uploads /\ m + (i - m) = i
      BY <1>1, <1>2, <2>2
    <3> QED BY <1>2, <3>1
  <2> QED BY <2>1, <2>2
<1>4. CASE j \in DOMAIN copies /\ recorded[n][j] = BufferCommands[j]
  <2>1. CASE k \in DOMAIN copies /\ recorded[n][k] = BufferCommands[k]
    BY <1>2, <1>4, <2>1, CopiesApart
  <2>2. CASE k - m \in DOMAIN uploads /\ recorded[n][k] = ImageCommands[k - m]
    BY <1>2, <1>4, <2>2, KindsApart DEF Compatible
  <2> QED BY <1>3, <2>1, <2>2
<1>5. CASE j - m \in DOMAIN uploads /\ recorded[n][j] = ImageCommands[j - m]
  <2>1. CASE k \in DOMAIN copies /\ recorded[n][k] = BufferCommands[k]
    BY <1>2, <1>5, <2>1, KindsApart DEF Compatible
  <2>2. CASE k - m \in DOMAIN uploads /\ recorded[n][k] = ImageCommands[k - m]
    <3>1. j - m # k - m
      BY <1>1, <1>2
    <3> QED BY <1>2, <1>5, <2>2, <3>1, UploadsApart
  <2> QED BY <1>3, <2>1, <2>2
<1> QED BY <1>3, <1>4, <1>5

(* The items that the entries were made of are those of the description.    *)
LEMMA ItemsAre ==
    ASSUME UploadInv, Live(Staging)
    PROVE  /\ \A k \in DOMAIN copies : IsCopyOf(copies[k], description.buffers[k])
           /\ \A k \in DOMAIN uploads : IsUploadOf(uploads[k], description.images[k])
BY DEF UploadInv, EntriesOfItems, InUse

(* A recorded command delivers its item.                                    *)
LEMMA RecordedDelivers ==
    ASSUME UploadInv, NEW n \in DOMAIN recorded, NEW c \in Range(recorded[n])
    PROVE  /\ c.src = Staging.handle
           /\ \A i \in 0..ItemOf(c).bytes - 1 : device[Start(c) + i] = <<c.item[1], c.item[2], i>>
           /\ IF c.item[1] = "buffer"
                THEN /\ c.dst = Buffer(copies[c.item[2]].destination).handle
                     /\ c.region.size = ItemOf(c).bytes /\ c.region.dst_offset = ItemOf(c).offset
                ELSE /\ c.dst = uploads[c.item[2]].image /\ c.layout = ItemOf(c).layout
                     /\ c.region = [ItemOf(c).region EXCEPT !.buffer_offset = Start(c)]
<1>1. Live(Staging) /\ Recordable
  BY RecordedAre
<1>2. CASE \E k \in DOMAIN copies : c = BufferCommands[k]
  <2>1. PICK k \in DOMAIN copies : c = BufferCommands[k]
    BY <1>2
  <2>2. /\ c.item = <<"buffer", k>> /\ c.src = Staging.handle
        /\ c.dst = Buffer(copies[k].destination).handle
        /\ c.region.src_offset = copies[k].staging_offset
        /\ c.region.dst_offset = copies[k].destination_offset /\ c.region.size = copies[k].size
    BY <2>1, BufferCommandIs
  <2>3. c.item[1] = "buffer" /\ c.item[2] = k
    BY <2>2
  <2>4. ItemOf(c) = description.buffers[k] /\ Start(c) = copies[k].staging_offset
    BY <2>2, <2>3 DEF ItemOf, Start
  <2>5. ItemOf(c).bytes = copies[k].size /\ ItemOf(c).offset = copies[k].destination_offset
    BY <1>1, <2>4, ItemsAre DEF IsCopyOf
  <2>6. ASSUME NEW i \in 0..copies[k].size - 1
        PROVE  device[copies[k].staging_offset + i] = <<"buffer", k, i>>
    BY <1>1, CopyIsPacked, DeviceHolds
  <2> QED BY <2>2, <2>3, <2>4, <2>5, <2>6
<1>3. CASE \E k \in DOMAIN uploads : c = ImageCommands[k]
  <2>1. PICK k \in DOMAIN uploads : c = ImageCommands[k]
    BY <1>3
  <2>2. /\ c.item = <<"image", k>> /\ c.src = Staging.handle
        /\ c.dst = uploads[k].image /\ c.layout = uploads[k].layout /\ c.region = uploads[k].region
    BY <1>1, <2>1, ImageCommandIs, UploadDestination
  <2>3. c.item[1] = "image" /\ c.item[2] = k
    BY <2>2
  <2>4. ItemOf(c) = description.images[k] /\ Start(c) = uploads[k].region.buffer_offset
    BY <2>2, <2>3 DEF ItemOf, Start
  <2>5. /\ ItemOf(c).bytes = uploads[k].bytes /\ ItemOf(c).layout = uploads[k].layout
        /\ uploads[k].region =
             [ItemOf(c).region EXCEPT !.buffer_offset = uploads[k].region.buffer_offset]
    BY <1>1, <2>4, ItemsAre DEF IsUploadOf
  <2>6. ASSUME NEW i \in 0..uploads[k].bytes - 1
        PROVE  device[uploads[k].region.buffer_offset + i] = <<"image", k, i>>
    BY <1>1, UploadIsPacked, DeviceHolds
  <2> QED BY <2>2, <2>3, <2>4, <2>5, <2>6
<1> QED BY <1>2, <1>3, RecordedIs

-----------------------------------------------------------------------------
(* The theorems                                                            *)

LEMMA UploadInitHolds == Init => UploadInv
<1> SUFFICES ASSUME Init PROVE UploadInv
  OBVIOUS
<1>1. OwnersInv /\ Accepted /\ ~Live(buffers[Local]) /\ ~Live(Staging)
  BY UploadAssumption
  DEF Init, ResourcesInit, OwnersInv, ResourcesTypeOK, OneOwnerEach, Balanced, Owned, Live,
      Accepted, Staging
<1>2. /\ step = "idle" /\ batch = FALSE /\ copies = <<>> /\ uploads = <<>> /\ staging_bytes = 0
      /\ recorded = <<>> /\ ~InUse
  BY <1>1 DEF Init, TransferInit, InUse
<1>3. UploadTypeOK /\ LocalLives /\ OwnerLives
  <2>1. 0 \in Sizes
    BY ResourcesAssumption DEF Sizes
  <2> QED BY <1>1, <1>2, <2>1 DEF UploadTypeOK, LocalLives, OwnerLives, Holding
<1>4. EntriesOfItems
  BY <1>1, <1>2 DEF EntriesOfItems, Holding
<1>5. Contiguous(Spans, staging_bytes)
  <2>1. Spans = <<>>
    BY <1>2 DEF Spans
  <2> QED BY <1>2, <2>1 DEF Contiguous
<1>6. MemoryHolds /\ Recording
  BY <1>1, <1>2 DEF MemoryHolds, Recording
<1> QED BY <1>1, <1>3, <1>4, <1>5, <1>6 DEF UploadInv

LEMMA UploadStepKeeps == UploadInv /\ [Next]_vars => UploadInv'
<1> SUFFICES ASSUME UploadInv, [Next]_vars PROVE UploadInv'
  OBVIOUS
<1>1. OwnersInv' /\ Accepted'
  BY UploadOwnersKeep
<1>2. CASE PrepareBegins
  BY <1>1, <1>2, PrepareBeginsKeeps
<1>3. CASE PrepareBuffer
  BY <1>1, <1>3, PrepareBufferKeeps
<1>4. CASE PrepareImage
  BY <1>1, <1>4, PrepareImageKeeps
<1>5. CASE CreateStaging
  BY <1>1, <1>5, CreateStagingKeeps
<1>6. CASE MapStaging \/ UnmapStaging
  BY <1>1, <1>6, MapStagingKeeps
<1>7. CASE WriteStaging
  BY <1>1, <1>7, WriteStagingKeeps
<1>8. CASE FlushStaging
  BY <1>1, <1>8, FlushStagingKeeps
<1>9. CASE PublishBatch
  BY <1>1, <1>9, PublishBatchKeeps
<1>10. CASE Unwind
  BY <1>1, <1>10, UnwindKeeps
<1>11. CASE RecordUpload
  BY <1>1, <1>11, RecordUploadKeeps
<1>12. CASE ReleaseStaging
  BY <1>1, <1>12, ReleaseStagingKeeps
<1>13. CASE BufferTargetChanges \/ ImageTargetChanges
  BY <1>1, <1>13, TargetsChange
<1>14. CASE PrepareRejected \/ RetireBatch \/ CommandChanges \/ UNCHANGED vars
  BY <1>1, <1>14, NothingNew
<1> QED BY <1>2, <1>3, <1>4, <1>5, <1>6, <1>7, <1>8, <1>9, <1>10, <1>11, <1>12, <1>13, <1>14
        DEF Next, Prepare, Application

LEMMA UploadInvariance == Spec => []UploadInv
BY UploadInitHolds, UploadStepKeeps, PTL DEF Spec

(* Whatever call on the staging buffer failed, none is left behind when     *)
(* prepareUploadBatch() returns, and the one of a batch is not mapped.      *)
THEOREM StagingLifecycleHolds == Spec => []StagingLifecycle
<1>1. UploadInv => StagingLifecycle
  <2> SUFFICES ASSUME UploadInv, step = "idle" PROVE StagingLifecycle
    BY DEF StagingLifecycle
  <2>1. ~Live(buffers[Local])
    BY DEF UploadInv, LocalLives, Holding
  <2>2. batch => Live(Staging)
    BY DEF UploadInv, OwnerLives
  <2>3. Live(Staging) => ~Staging.mapping /\ native[Staging.handle].maps = 0
    BY UploadAssumption DEF UploadInv, OwnerLives, OwnersInv, Balanced, Staging
  <2> QED BY <2>1, <2>2, <2>3 DEF StagingLifecycle
<1> QED BY <1>1, UploadInvariance, PTL

(* The items lie back to back in the staging buffer on multiples of four,   *)
(* and the sums that place them never exceed the largest vk::DeviceSize     *)
(* (withinStaging and the offsets of prepareUploadBatch()).                 *)
THEOREM StagingIsPacked == Spec => []PackedStaging
<1>1. UploadInv => PackedStaging
  <2> SUFFICES ASSUME UploadInv PROVE PackedStaging
    OBVIOUS
  <2>1. staging_bytes <= MaxSize
    BY ResourcesAssumption DEF UploadInv, UploadTypeOK, Sizes
  <2>2. batch => Staging.config.size = staging_bytes
    BY StagingSize DEF UploadInv, OwnerLives
  <2>3. Contiguous(Spans, staging_bytes)
    BY DEF UploadInv
  <2> QED BY <2>1, <2>2, <2>3 DEF PackedStaging, Contiguous
<1> QED BY <1>1, UploadInvariance, PTL

(* "Validate every Buffer and Image entry before the first native vkCmd     *)
(* call": no native call of recordUploadBatch() can fail any more, so a     *)
(* call that records a command records those of all items.                  *)
THEOREM NothingIsRecordedInPart == Spec => NeverPartial
<1> DEFINE whole == /\ outcome' = "ok"
                    /\ recorded' = Append(recorded, BufferCommands \o ImageCommands)
<1>1. UploadInv /\ [Next]_vars => [recorded' \notin {recorded, <<>>} => whole]_vars
  <2> SUFFICES ASSUME UploadInv, Next, recorded' \notin {recorded, <<>>}
               PROVE  whole
    BY DEF vars, commandVars
  <2>1. CASE RecordUpload
    BY <2>1, RecordsWhole
  <2>2. CASE Prepare
    BY <2>2
    DEF Prepare, PrepareRejected, PrepareBegins, PrepareBuffer, PrepareImage, CreateStaging, MapStaging,
        WriteStaging, FlushStaging, Flush, UnmapStaging, PublishBatch, Unwind, commandVars
  <2>3. CASE Application
    BY <2>3
    DEF Application, RetireBatch, ReleaseStaging, BufferTargetChanges, ImageTargetChanges,
        CommandChanges, BeginCommand, FinishCommand, commandVars
  <2> QED BY <2>1, <2>2, <2>3 DEF Next
<1> QED BY <1>1, UploadInvariance, PTL DEF Spec, NeverPartial

(* What the GPU executes is what the caller asked for when it prepared,     *)
(* although wrappers were moved, destroyed and created again before the     *)
(* batch was recorded: every byte of the item, flushed, goes to the place   *)
(* the item names (prepareUploadBatch() and recordUploadBatch() together).  *)
THEOREM PayloadIsDelivered == Spec => []DeliversPayload
<1>1. UploadInv => DeliversPayload
  BY RecordedDelivers DEF DeliversPayload
<1> QED BY <1>1, UploadInvariance, PTL

(* The copies that one recordUploadBatch() recorded stay inside the objects *)
(* as they are, of whatever size and with however many mip levels, and no   *)
(* order in which the GPU runs them changes what is written.                *)
THEOREM RecordedCopiesAreLegal == Spec => []RecordedCopiesAreValid
<1>1. UploadInv => RecordedCopiesAreValid
  BY RecordedValid, RecordedCompatible DEF RecordedCopiesAreValid
<1> QED BY <1>1, UploadInvariance, PTL
=============================================================================

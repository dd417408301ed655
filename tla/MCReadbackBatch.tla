--------------------------- MODULE MCReadbackBatch ---------------------------
(***************************************************************************)
(* A small instance of ReadbackBatch for TLC: one buffer and one image to  *)
(* read, on two devices, and descriptions that reach every error of        *)
(* prepareReadbackBatch().                                                 *)
(***************************************************************************)
EXTENDS ReadbackBatch, TLC

CONSTANTS local, owner, s1, i1, a1, a2, d1, d2

MCDeviceOf == [a \in Allocators |-> IF a = a1 THEN d1 ELSE d2]

Described(size, usage) ==
    [size |-> size, usage |-> usage, allowed |-> TRUE, access |-> "any", host_visible |-> TRUE]

MCBufferDescriptions == {Described(7, {"transfer_src"}), Described(4, {"transfer_src"})}

Pixels(width, height, levels) ==
    [refused |-> "none", rgba8_2d |-> TRUE,
     usage |-> {"transfer_src"} \cup (IF levels > 1 THEN {"transfer_dst"} ELSE {}),
     width |-> width, height |-> height, mip_levels |-> levels, array_layers |-> 1]

MCImageDescriptions ==
    {Pixels(3, 2, 2), Pixels(2, 2, 1)}

Region(x, y, width, height, mip) ==
    [plain |-> TRUE, buffer_offset |-> 0, row_length |-> 0, image_height |-> 0, mip |-> mip,
     layer |-> 0, x |-> x, y |-> y, width |-> width, height |-> height]

Read(offset, size) == [source |-> s1, offset |-> offset, size |-> size]

Pick(region) == [source |-> i1, layout |-> "general", region |-> region]

Batch(reads, picks) ==
    [buffers |-> reads, images |-> picks,
     staging |-> [Described(0, {}) EXCEPT !.access = "host_access", !.host_visible = FALSE]]

\* One column of two rows, with space between the rows.
Column == Pick([Region(1, 0, 1, 2, 0) EXCEPT !.row_length = 2])

\* Batches that can be prepared, given sources that fit ...
Accepted ==
    {Batch(<<Read(2, 5)>>, <<Column>>), Batch(<<Read(0, 4), Read(1, 2)>>, <<>>),
     Batch(<<>>, <<Pick(Region(2, 0, 1, 1, 0)), Pick(Region(0, 0, 1, 1, 1))>>)}

\* ... and others that cannot.
Refused ==
    {Batch(<<>>, <<>>), Batch(<<Read(6, 2)>>, <<>>),
     Batch(<<Read(0, 7), Read(0, 7), Read(0, 7), Read(0, 7)>>, <<>>),
     Batch(<<Read(0, 7), Read(0, 2)>>, <<Column>>),
     Batch(<<>>, <<Pick(Region(0, 0, 3, 2, 0))>>),
     Batch(<<>>, <<Column, [Column EXCEPT !.layout = "transfer_src_optimal"]>>),
     [Batch(<<Read(0, 4)>>, <<>>) EXCEPT !.staging.access = "no_host_access"],
     [Batch(<<Read(0, 4)>>, <<>>) EXCEPT !.staging.allowed = FALSE]}

MCDescriptions == Accepted \cup Refused

\* What the application records itself, refused and not.
MCBarriers == {{"image"}, {"memory", "malformed"}}
MCImageCopies ==
    {[src |-> Region(0, 0, 1, 1, 0), dst |-> Region(x, 0, 1, 1, 1)] : x \in {0, 1}}

\* One batch of one range and one region, for liveness.
MCOneDescription == {Batch(<<Read(2, 5)>>, <<Column>>)}
MCOneBuffer == {Described(7, {"transfer_src"})}
MCOneImage == {Pixels(3, 2, 2)}

Symmetry == Permutations(Handles)
=============================================================================

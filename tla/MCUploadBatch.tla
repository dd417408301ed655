---------------------------- MODULE MCUploadBatch ----------------------------
(***************************************************************************)
(* A small instance of UploadBatch for TLC: one buffer wrapper and one     *)
(* image wrapper as targets, on two devices, and descriptions that reach   *)
(* the errors of prepareUploadBatch().                                     *)
(***************************************************************************)
EXTENDS UploadBatch, TLC

CONSTANTS local, owner, t1, i1, a1, a2, d1, d2

MCDeviceOf == (a1 :> d1) @@ (a2 :> d2)

Target(size, usage) ==
    [size |-> size, usage |-> usage, allowed |-> TRUE, access |-> "any", host_visible |-> TRUE]

MCBufferDescriptions ==
    {Target(12, {"transfer_dst"}), Target(8, {"transfer_dst"}), Target(20, {"other"})}

Pixels(width, height, levels) ==
    [refused |-> "none", rgba8_2d |-> TRUE, usage |-> {"transfer_dst"},
     width |-> width, height |-> height, mip_levels |-> levels, array_layers |-> 1]

MCImageDescriptions ==
    {Pixels(4, 2, 2), Pixels(2, 2, 1), [Pixels(2, 2, 1) EXCEPT !.rgba8_2d = FALSE]}

Region(x, y, width, height, mip) ==
    [plain |-> TRUE, buffer_offset |-> 0, row_length |-> 0, image_height |-> 0, mip |-> mip,
     layer |-> 0, x |-> x, y |-> y, width |-> width, height |-> height]

Write(offset, bytes) == [destination |-> t1, offset |-> offset, bytes |-> bytes]

Draw(i, region, bytes) ==
    [destination |-> i, layout |-> "general", region |-> region, bytes |-> bytes]

Batch(writes, draws) ==
    [buffers |-> writes, images |-> draws,
     staging |-> [Target(0, {}) EXCEPT !.access = "host_access", !.host_visible = FALSE]]

Right == Draw(i1, Region(2, 0, 1, 2, 0), 8)
Left == Draw(i1, Region(0, 0, 2, 2, 0), 16)

\* Batches that can be prepared, given a target that fits ...
Accepted ==
    {Batch(<<Write(4, 8)>>, <<Left>>),
     Batch(<<Write(8, 4), Write(0, 8)>>, <<>>),
     Batch(<<>>, <<Right, Left>>),
     Batch(<<>>, <<Draw(i1, [Region(0, 0, 1, 2, 0) EXCEPT !.row_length = 2], 12),
                   Draw(i1, Region(0, 0, 2, 1, 1), 8)>>),
     [Batch(<<Write(0, 4)>>, <<>>) EXCEPT !.staging.access = "no_host_access"]}

\* ... and one for every reason to refuse.
Refused ==
    {Batch(<<>>, <<>>), Batch(<<Write(0, 0)>>, <<>>), Batch(<<Write(2, 4)>>, <<>>),
     Batch(<<Write(8, 8)>>, <<>>), Batch(<<Write(0, 8), Write(4, 8)>>, <<>>),
     Batch(<<Write(0, 12), Write(0, 12)>>, <<Left>>),
     Batch(<<>>, <<Draw(i1, Region(0, 0, 4, 2, 0), 32)>>),
     Batch(<<Write(0, 12)>>, <<Left, Right>>),
     Batch(<<>>, <<Right, Draw(i1, Region(1, 0, 2, 1, 0), 8)>>),
     Batch(<<>>, <<Right, [Left EXCEPT !.layout = "transfer_dst_optimal"]>>),
     Batch(<<>>, <<[Right EXCEPT !.layout = "undefined"]>>),
     Batch(<<>>, <<[Right EXCEPT !.bytes = 12]>>),
     Batch(<<>>, <<[Right EXCEPT !.region.buffer_offset = 4]>>),
     Batch(<<>>, <<[Right EXCEPT !.region.plain = FALSE]>>),
     Batch(<<>>, <<Draw(Null, Region(0, 0, 1, 1, 0), 4)>>)}

MCDescriptions == Accepted \cup Refused

Symmetry == Permutations(Handles)
=============================================================================

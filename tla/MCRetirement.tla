---------------------------- MODULE MCRetirement ----------------------------
(***************************************************************************)
(* Small instances of Retirement for TLC.                                  *)
(***************************************************************************)
EXTENDS Retirement

CONSTANTS r1, r2, s1, s2, s3, d1, d2

\* Two batches on the first device, one on the second.
MCDeviceOf == [s \in {s1, s2, s3} |-> IF s = s3 THEN d2 ELSE d1]

\* No receipt, one, two of the same device, two of different devices.
MCUseLists == {<<>>, <<s1>>, <<s1, s2>>, <<s3>>, <<s1, s3>>}
=============================================================================

---------------------------- MODULE MCSubmission ----------------------------
(***************************************************************************)
(* Small instances of Submission for TLC.                                  *)
(***************************************************************************)
EXTENDS Submission, TLC

CONSTANTS p1, p2, i1, i2, r1, r2, v1, v2, general, second, video,
          device, moved, other, q1, q2, foreign, f1, f2, t1, s1, b1, b2, b3

\* A resettable pool, a plain one, a protected one, and one description for
\* each refusal.
MCPoolDescriptions ==
    {[family |-> general, flags |-> {"resetCommandBuffer"}],
     [family |-> second, flags |-> {}],
     [family |-> second, flags |-> {"protected"}],
     [family |-> general, flags |-> {"protected"}],
     [family |-> general, flags |-> {"unknown"}],
     [family |-> video, flags |-> {}]}

MCQueueOf == [q \in {q1, q2, foreign} |->
                [device |-> IF q = foreign THEN other ELSE device,
                 family |-> IF q = q2 THEN second ELSE general]]

Signal(semaphore, value, stage) ==
    [semaphore |-> semaphore, kind |-> IF value = 0 THEN "binary" ELSE "timeline",
     value |-> value, stage |-> stage, plain |-> TRUE]
Observing(kind, object, value) == [kind |-> kind, object |-> object, value |-> value]

\* A plain batch on q1 that signals fence f1 and observes it.
Plain == [device |-> device, queue |-> q1, completionDevice |-> device, completionQueue |-> q1,
          identified |-> TRUE, waits |-> <<>>, signals |-> <<>>, fence |-> f1,
          condition |-> Observing("fence", f1, 0)]

\* Batches that observe a timeline, signal it earlier, wait and hand over.
MCAccepted ==
    {Plain,
     [Plain EXCEPT !.signals = <<Signal(t1, 1, "all")>>, !.fence = NoFence,
                   !.condition = Observing("timeline", t1, 1)],
     [Plain EXCEPT !.signals = <<Signal(t1, 2, "early")>>, !.fence = f2,
                   !.condition = Observing("fence", f2, 0)],
     [Plain EXCEPT !.signals = <<Signal(t1, 2, "all"), Signal(s1, 0, "all")>>, !.fence = NoFence,
                   !.condition = Observing("timeline", t1, 2)],
     [Plain EXCEPT !.waits = <<Signal(s1, 0, "early")>>],
     [Plain EXCEPT !.waits = <<Signal(t1, 1, "all")>>, !.queue = q2, !.completionQueue = q2]}

\* One refusal each.
MCRefused ==
    {[Plain EXCEPT !.device = moved], [Plain EXCEPT !.queue = NoQueue],
     [Plain EXCEPT !.queue = foreign], [Plain EXCEPT !.completionQueue = q2],
     [Plain EXCEPT !.identified = FALSE], [Plain EXCEPT !.condition.object = NoFence],
     [Plain EXCEPT !.fence = f2],
     [Plain EXCEPT !.signals = <<Signal(t1, 1, "early")>>, !.condition = Observing("timeline", t1, 1)],
     [Plain EXCEPT !.signals = <<Signal(t1, 2, "all")>>, !.condition = Observing("timeline", t1, 1)],
     [Plain EXCEPT !.signals = <<Signal(t1, 1, "all"), Signal(t1, 2, "all")>>],
     [Plain EXCEPT !.waits = <<Signal(t1, 1, "all")>>, !.signals = <<Signal(t1, 1, "all")>>],
     [Plain EXCEPT !.waits = <<[Signal(t1, 1, "all") EXCEPT !.plain = FALSE]>>]}

MCSubmittable == MCAccepted \cup MCRefused

\* What the last call returned has no influence on what happens next.
View == <<poolVars, record, bufferVars, faults, gpuVars>>

Symmetry == Permutations({p1, p2}) \cup Permutations({i1, i2}) \cup Permutations({r1, r2})
            \cup Permutations({v1, v2}) \cup Permutations({b1, b2, b3})

(***************************************************************************)
(* Everything pools, records and views can do is explored up to the first  *)
(* submission, a protected pool on its own.  From there on a state is      *)
(* followed while it has one pool, one record and at most one view, or,    *)
(* with no failure so far, one recorded buffer for either queue.           *)
(***************************************************************************)
InUse == {i \in Impls : description[i] # NoImpl}
Alone == /\ Cardinality(InUse) = 1
         /\ Cardinality({r \in Records : state[r] # "none"}) = 1
         /\ Cardinality({v \in Views : record[v] # NoRecord}) <= 1
OneForEitherQueue ==
    /\ faults = 0
    /\ {description[i] : i \in InUse} = {[family |-> general, flags |-> {"resetCommandBuffer"}],
                                         [family |-> second, flags |-> {}]}
    /\ \A i \in InUse : Cardinality(records[i]) = 1
    /\ \A r \in Records : state[r] \in {"executable", "pending"}
    /\ \A v \in Views : record[v] # NoRecord
NothingSubmitted ==
    /\ Accepted = {}
    /\ \A i \in InUse : "protected" \in description[i].flags => InUse = {i}
Slice == NothingSubmitted \/ Alone \/ OneForEitherQueue
=============================================================================

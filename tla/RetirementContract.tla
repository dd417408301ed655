------------------------- MODULE RetirementContract -------------------------
(***************************************************************************)
(* What a retirement queue promises its application, without saying how    *)
(* completion is polled: an owner handed over together with the set of     *)
(* submissions that use it is destroyed only when all of them are out of   *)
(* the GPU's way, or as part of one explicit teardown that follows the     *)
(* loss of the device they all run on.  Retirement implements this.        *)
(***************************************************************************)
EXTENDS Naturals

CONSTANTS
    Resources,      \* owners
    Submissions,    \* accepted batches
    Devices,
    DeviceOf        \* the device each batch runs on

VARIABLES
    place,          \* where each owner is: "caller", "queue" or "destroyed"
    coverage,       \* the uses declared when the owner was handed over
    finished,       \* batches whose execution has completed
    lostDevices,    \* devices that are lost
    latched         \* has the queue itself seen its device lost?

contractVars == <<place, coverage, finished, lostDevices, latched>>

Init ==
    /\ place = [r \in Resources |-> "caller"]
    /\ coverage = [r \in Resources |-> {}]
    /\ finished = {}
    /\ lostDevices = {}
    /\ latched = FALSE

\* The owners the queue holds.
Held == {r \in Resources : place[r] = "queue"}

\* A batch can no longer touch a resource: it ran, or its device is lost.
OutOfTheWay(s) == s \in finished \/ DeviceOf[s] \in lostDevices

(* The caller gives up r, declaring its uses.  Every use held by the queue  *)
(* runs on one device, and a queue that saw a loss accepts nothing more.    *)
HandOver(r, uses) ==
    /\ ~latched
    /\ place[r] = "caller"
    /\ uses # {}
    /\ \A s \in uses, h \in Held : \A t \in coverage[h] : DeviceOf[s] = DeviceOf[t]
    /\ \A s, t \in uses : DeviceOf[s] = DeviceOf[t]
    /\ place' = [place EXCEPT ![r] = "queue"]
    /\ coverage' = [coverage EXCEPT ![r] = uses]
    /\ UNCHANGED <<finished, lostDevices, latched>>

\* The GPU completes a batch.
Finish(s) ==
    /\ finished' = finished \cup {s}
    /\ UNCHANGED <<place, coverage, lostDevices, latched>>

\* A device is lost.
Lose(d) ==
    /\ lostDevices' = lostDevices \cup {d}
    /\ UNCHANGED <<place, coverage, finished, latched>>

\* One owner is destroyed: all of its declared uses are out of the way.
Release(r) ==
    /\ ~latched
    /\ place[r] = "queue"
    /\ \A s \in coverage[r] : OutOfTheWay(s)
    /\ place' = [place EXCEPT ![r] = "destroyed"]
    /\ UNCHANGED <<coverage, finished, lostDevices, latched>>

\* The queue sees the loss of the device its owners are used on.
ObserveLoss ==
    /\ ~latched
    /\ Held # {}
    /\ \A r \in Held : \A s \in coverage[r] : DeviceOf[s] \in lostDevices
    /\ latched' = TRUE
    /\ UNCHANGED <<place, coverage, finished, lostDevices>>

\* Teardown after an observed loss: every owner goes at once.
ReclaimAll ==
    /\ latched
    /\ place' = [r \in Resources |-> IF r \in Held THEN "destroyed" ELSE place[r]]
    /\ UNCHANGED <<coverage, finished, lostDevices, latched>>

Next ==
    \/ \E r \in Resources, uses \in SUBSET Submissions : HandOver(r, uses)
    \/ \E s \in Submissions : Finish(s)
    \/ \E d \in Devices : Lose(d)
    \/ \E r \in Resources : Release(r)
    \/ ObserveLoss
    \/ ReclaimAll

Spec == Init /\ [][Next]_contractVars
=============================================================================

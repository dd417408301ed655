SPECIFICATION Spec
CONSTANTS
    p1 = p1
    p2 = p2
    i1 = i1
    i2 = i2
    r1 = r1
    r2 = r2
    v1 = v1
    v2 = v2
    general = general
    second = second
    video = video
    device = device
    moved = moved
    other = other
    q1 = q1
    q2 = q2
    foreign = foreign
    f1 = f1
    f2 = f2
    t1 = t1
    s1 = s1
    b1 = b1
    b2 = b2
    b3 = b3
    NoImpl = NoImpl
    NoRecord = NoRecord
    NoQueue = NoQueue
    NoFence = NoFence
    NoSemaphore = NoSemaphore
    Pools = {p1, p2}
    Impls = {i1, i2}
    Records = {r1, r2}
    Views = {v1, v2}
    Descriptions <- MCPoolDescriptions
    EnabledFamilies = {general, second}
    ProtectedFamilies = {second}
    ProtectedMemory = TRUE
    MaxFaults = 1
    Devices = {device, moved, other}
    LiveDevices = {device, other}
    PoolDevice = device
    Queues = {q1, q2, foreign}
    QueueOf <- MCQueueOf
    Synchronization2 = TRUE
    TimelineSemaphore = TRUE
    Fences = {f1, f2}
    Timelines = {t1}
    Binaries = {s1}
    Batches = {b1, b2, b3}
    Submittable <- MCSubmittable
VIEW View
CONSTRAINT Slice
SYMMETRY Symmetry
INVARIANTS
    ReceiptFollowsItsBatch
    CompletionsStayTrue
    TrackingAgrees
    EveryAllocationOwned
    ViewsAreExclusive
PROPERTY
    SubmittedBuffersAreExecutable

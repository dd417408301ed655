SPECIFICATION AllocatorSpec
CONSTANTS
    Instances = {i1, i2}
    InstanceImpls = {p1, p2}
    Devices = {d1, d2}
    DeviceImpls = {q1, q2}
    NoImpl = NoImpl
    Slots = {s1}
    Capabilities <- MCCapabilities
    Snapshots <- MCSnapshots
    Descriptions <- MCDescriptions
    MaxInstances = 2
    MaxDevices = 2
    Allocators = {a1, a2}
    VmaHandles = {v1, v2}
    NoHandle = NoHandle
    InstancePlans <- MCInstancePlans
    AllocatorDescriptions <- MCAllocatorDescriptions
SYMMETRY Symmetry
INVARIANTS
    QueuesServeTheirCallers
    DeviceIsFromItsInstance
    NativeDevicesAreOwned
    EnablesWhatWasAsked
    AllocatorsStandOnTheirParents
    FlagsAreEnabled

SPECIFICATION Spec
CONSTANTS
    local = local
    owner = owner
    t1 = t1
    i1 = i1
    a1 = a1
    a2 = a2
    d1 = d1
    d2 = d2
    Buffers = {local, owner, t1}
    Images = {i1}
    Handles = {h1, h2, h3, h4}
    Allocators = {a1, a2}
    Devices = {d1, d2}
    DeviceOf <- MCDeviceOf
    BufferDescriptions <- MCBufferDescriptions
    ImageDescriptions <- MCImageDescriptions
    Synchronization2 = {}
    MaxSize = 31
    MaxRow = 15
    Null = Null
    Local = local
    Owner = owner
    MaxRecorded = 1
    Descriptions <- MCDescriptions
SYMMETRY Symmetry
INVARIANTS
    PackedStaging
    DeliversPayload
    RecordedCopiesAreValid
    StagingLifecycle
PROPERTY
    NeverPartial

SPECIFICATION Spec
CONSTANTS
    local = local
    owner = owner
    s1 = s1
    i1 = i1
    a1 = a1
    a2 = a2
    d1 = d1
    d2 = d2
    Buffers = {local, owner, s1}
    Images = {i1}
    Handles = {h1, h2, h3, h4}
    Allocators = {a1, a2}
    Devices = {d1, d2}
    DeviceOf <- MCDeviceOf
    BufferDescriptions <- MCBufferDescriptions
    ImageDescriptions <- MCImageDescriptions
    Synchronization2 = {d1}
    Barriers <- MCBarriers
    ImageCopies <- MCImageCopies
    MaxSize = 23
    MaxRow = 11
    Null = Null
    Local = local
    Owner = owner
    MaxRecorded = 1
    MaxUses = 2
    Descriptions <- MCDescriptions
SYMMETRY Symmetry
INVARIANTS
    PackedReadback
    RecordedReadsAreValid
    PublishesWhatTheGpuWrote

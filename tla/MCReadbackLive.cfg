SPECIFICATION FairSpec
CONSTANTS
    local = local
    owner = owner
    s1 = s1
    i1 = i1
    a1 = a1
    a2 = a2
    d1 = d1
    d2 = d2
    Buffers = {local, owner, s1}
    Images = {i1}
    Handles = {h1, h2, h3}
    Allocators = {a1}
    Devices = {d1}
    DeviceOf <- MCDeviceOf
    BufferDescriptions <- MCOneBuffer
    ImageDescriptions <- MCOneImage
    Synchronization2 = {d1}
    Barriers = {}
    ImageCopies = {}
    MaxSize = 23
    MaxRow = 11
    Null = Null
    Local = local
    Owner = owner
    MaxRecorded = 1
    MaxUses = 2
    Descriptions <- MCOneDescription
PROPERTY
    RetrySucceeds

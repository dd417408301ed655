SPECIFICATION ViewSpec
CONSTANTS
    a1 = a1
    a2 = a2
    d1 = d1
    d2 = d2
    Buffers = {b1, b2}
    Images = {i1, i2}
    Handles = {h1, h2, h3}
    Allocators = {a1, a2}
    BufferDescriptions <- MCBufferDescriptions
    ImageDescriptions <- MCImageDescriptions
    MaxSize = 2
    Null = Null
    Views = {v1, v2}
    ViewHandles = {w1, w2}
    Devices = {d1, d2}
    DeviceOf <- MCDeviceOf
    ViewDescriptions <- MCViewDescriptions
    RemainingCount = 3
SYMMETRY Symmetry
INVARIANTS
    ViewsSeeTheirImage
    OneOwnerEach
    MappingsBalanced
PROPERTY
    SynchronizedInside

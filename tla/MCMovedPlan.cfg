SPECIFICATION Spec
CONSTANTS
    Instances = {i1, i2}
    Addresses = {m1, m2}
    NoAddress = NoAddress
    Sinks = {k1, k2}
    NoSink = NoSink
    Hosts <- MCHosts
    Snapshots <- MCSnapshots
    Descriptions <- MCDescriptions
    Repeated <- MCRepeated
    Messages <- MCMessages
    MaxInstances = 3
SYMMETRY Symmetry
INVARIANTS
    DebugUtilsIsPermitted

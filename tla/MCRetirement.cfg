SPECIFICATION FairSpec
CONSTANTS
    r1 = r1
    r2 = r2
    s1 = s1
    s2 = s2
    s3 = s3
    d1 = d1
    d2 = d2
    NoDevice = NoDevice
    Resources = {r1, r2}
    Submissions = {s1, s2, s3}
    Devices = {d1, d2}
    DeviceOf <- MCDeviceOf
    UseLists <- MCUseLists
    MaxFaults = 1
INVARIANTS
    NoEarlyDestruction
    HeldExactlyOnce
PROPERTIES
    ErrorReleasesNothing
    ImplementsContract
    EventuallyReleased

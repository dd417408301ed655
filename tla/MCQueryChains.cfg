SPECIFICATION SelectionSpec
CHECK_DEADLOCK FALSE
CONSTANTS
    Plans <- MCPlans
    Machines <- MCMachines
    Uuids = {"u0", "u1", "u2"}
    ZeroUuid = "u0"
    Requirements <- MCRequirements
    Policies <- MCPolicies
    MaxSpan = 3
INVARIANT
    ChainsArePermitted

SPECIFICATION BackendSpec
CONSTANTS
    MaxRetries = 2
    MaxRecoveryRounds = 3
    p1 = p1
    r1 = r1
    q1 = q1
    alice = alice
    bob = bob
    Updates <- MCUpdates
    ChatOf <- MCChatOf
    KindOf <- MCKindOf
    MaxDeliveries = 2
    MaxCrashes = 1
    j1 = j1
    j2 = j2
    Ids <- MCIds
    Periods <- MCPeriods
    Grace = 2
    MaxLag = 1
    a1 = a1
    a2 = a2
    k1 = k1
    None = None
    Findings = {f1, f2}
    Askers = {a1, a2}
    Keys = {k1}
    KeyOf <- MCKeyOf
    Threshold = 2
    Cooldown = 2
INVARIANT ExhaustedIsCompacted

CONSTANTS
    w1 = w1
    w2 = w2
    p1 = p1
    p2 = p2
    t1 = t1
    n1 = n1
    n2 = n2
    NoProfile = NoProfile
    EmptyProfile = EmptyProfile
    None = None
    Targets = {t1}
    Namespaces <- MCNamespaces
    BreakGlassConditions <- MCBreakGlass
    SigResults = {"valid", "invalid", "abort"}
    MutResults = {"unmutated", "mutated"}
    Modes = {FALSE}
SPECIFICATION Spec
CONSTANTS
    Workers = {w1, w2}
    Refs <- TableRefs
    Payloads <- TablePayloads
    Requests <- LostUpdateRequests
    InitProfiles <- TableInit
    WellFormedClients = TRUE
    GetMayFail = FALSE
    SignPolicyMayFail = FALSE
    MaxRequests = 2
INVARIANT TablesMatchProfiles

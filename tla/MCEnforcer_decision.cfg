CONSTANTS
    w1 = w1
    w2 = w2
    p1 = p1
    p2 = p2
    t1 = t1
    n1 = n1
    n2 = n2
    NoProfile = NoProfile
    EmptyProfile = EmptyProfile
    None = None
    Workers = {w1, w2}
    Refs <- DecisionRefs
    Targets = {t1}
    Namespaces <- MCNamespaces
    Payloads <- DecisionPayloads
    Requests <- DecisionRequests
    InitProfiles <- DecisionInit
    BreakGlassConditions <- MCBreakGlass
    Modes = {FALSE, TRUE}
    WellFormedClients = FALSE
    GetMayFail = FALSE
    SignPolicyMayFail = TRUE
    MaxRequests = 2
SPECIFICATION Spec
INVARIANT AllProfilesPassed
PROPERTY ProfileDeleteGuard
PROPERTY AllowCoversMatchedProfiles
CONSTANTS
    SigResults = {"valid", "invalid", "unchecked", "abort"}
    MutResults = {"unmutated", "mutated", "abort"}

\* One user Update of t1, which p1 protects, while the Get of p1 may fail.
CONSTANTS
    w1 = w1
    w2 = w2
    p1 = p1
    p2 = p2
    t1 = t1
    n1 = n1
    n2 = n2
    NoProfile = NoProfile
    EmptyProfile = EmptyProfile
    None = None
    Targets = {t1}
    Namespaces <- MCNamespaces
    BreakGlassConditions <- MCBreakGlass
    SigResults = {"valid", "invalid"}
    MutResults = {"mutated"}
    Modes = {FALSE}
SPECIFICATION Spec
CONSTANTS
    Workers = {w1}
    Refs = {p1}
    Payloads = {}
    Requests <- EventRequests
    InitProfiles <- OneProfileInit
    WellFormedClients = TRUE
    GetMayFail = TRUE
    SignPolicyMayFail = FALSE
    MaxRequests = 1
PROPERTY AllowCoversMatchedProfiles

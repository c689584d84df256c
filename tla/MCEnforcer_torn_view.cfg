\* A user's Update of t1 handled while an admin's Update of p1, which
\* protects t1, makes it force-check t1 instead: two workers, one request
\* each.
CONSTANTS
    w1 = w1
    w2 = w2
    p1 = p1
    p2 = p2
    t1 = t1
    n1 = n1
    n2 = n2
    NoProfile = NoProfile
    EmptyProfile = EmptyProfile
    None = None
    Workers = {w1, w2}
    Refs = {p1}
    Targets = {t1}
    Namespaces <- MCNamespaces
    Payloads = {}
    Requests <- TornRequests
    InitProfiles <- OneProfileInit
    BreakGlassConditions <- MCBreakGlass
    SigResults = {"valid"}
    MutResults = {"unmutated"}
    Modes = {FALSE}
    WellFormedClients = TRUE
    GetMayFail = FALSE
    SignPolicyMayFail = FALSE
    MaxRequests = 2
SPECIFICATION Spec
PROPERTY ClassifiedByWholeChanges

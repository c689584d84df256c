\* One user's Update of t1, which p1 protects, with a SignPolicy List that
\* may fail on a cache miss; the verifier always answers.
CONSTANTS
    w1 = w1
    w2 = w2
    p1 = p1
    p2 = p2
    t1 = t1
    n1 = n1
    n2 = n2
    NoProfile = NoProfile
    EmptyProfile = EmptyProfile
    None = None
    Workers = {w1}
    Refs = {p1}
    Targets = {t1}
    Namespaces <- MCNamespaces
    Payloads = {}
    Requests <- EventRequests
    InitProfiles <- OneProfileInit
    BreakGlassConditions <- MCBreakGlass
    SigResults = {"valid"}
    MutResults = {"unmutated"}
    Modes = {FALSE}
    WellFormedClients = TRUE
    GetMayFail = FALSE
    SignPolicyMayFail = TRUE
    MaxRequests = 1
SPECIFICATION Spec
INVARIANT RunNeverPanics

CONSTANTS
    g1 = g1
    g2 = g2
    m1 = m1
    m2 = m2
    GVKs <- MCGVKs
    Messages <- MCMessages
    MaxCalls <- MCMaxCalls
SPECIFICATION Spec
INVARIANT TypeOK
INVARIANT StatusMatchesHistory

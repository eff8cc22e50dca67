SPECIFICATION HSpec
CONSTANTS
    s1 = s1
    s2 = s2
    t1 = t1
    t2 = t2
    t3 = t3
    pr1 = pr1
    w1 = w1
    w2 = w2
    i1 = i1
    h1 = h1
    h2 = h2
    NULL = NULL
    DETACHED = DETACHED
    Sessions = {s1, s2}
    Tokens = {t1, t2}
    Prs = {pr1}
    Workers = {w1, w2}
    Ingesters = {}
    Handlers = {}
    PrAuthor <- HumanPrs
    LeaseOutlivesCreate = TRUE
    LeaseOutlivesHop = FALSE
    DevinOutcomes = {}
    MaxFaults = 1
    MaxRedeliveries = 0
SYMMETRY Symmetry
INVARIANTS TokenHasLease ClaimIsExclusive
PROPERTIES ImplementsOwnership ChainNeverJustEnds

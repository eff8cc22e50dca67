SPECIFICATION FairSpec
CONSTANTS
    s1 = s1
    s2 = s2
    t1 = t1
    t2 = t2
    t3 = t3
    pr1 = pr1
    w1 = w1
    w2 = w2
    i1 = i1
    h1 = h1
    h2 = h2
    NULL = NULL
    DETACHED = DETACHED
    Sessions = {s1}
    Tokens = {t1, t2}
    Prs = {}
    Workers = {w1}
    Ingesters = {i1}
    Handlers = {}
    PrAuthor <- HumanPrs
    LeaseOutlivesCreate = TRUE
    LeaseOutlivesHop = TRUE
    DevinOutcomes = {"finished", "error"}
    MaxFaults = 2
    MaxRedeliveries = 1
PROPERTIES SessionIsSettled StrandedClaimIsRecovered

SPECIFICATION Spec
CONSTANTS
    s1 = s1
    pr1 = pr1
    h1 = h1
    h2 = h2
    w1 = w1
    NULL = NULL
    DETACHED = DETACHED
    Sessions = {s1}
    Tokens = {}
    Issues = {1}
    Prs = {pr1}
    Handlers = {h1, h2}
    Workers = {w1}
    Texts <- OneOrNone
    MaxFaults = 1
INVARIANTS TypeOK OwedIsOnItsWay
SYMMETRY HandlerSymmetry

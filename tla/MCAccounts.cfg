SPECIFICATION Spec
CONSTANTS
    root = root
    alice = alice
    k1 = k1
    p1 = p1
    p2 = p2
    c1 = c1
    c2 = c2
    x1 = x1
    Handles = {root, alice}
    Keys = {k1}
    Applicants = {p1, p2}
    Callers = {c1, c2}
    Ctls = {x1}
    Operator = root
    Console = c1
    MaxTokens = 2
    MaxRows = 1
    MaxCommands = 2
SYMMETRY Symmetric
INVARIANTS
    TypeOK
    TokenOnce
    KeyPerTier
    StrandedHasCause
CONSTRAINT Load
CHECK_DEADLOCK FALSE

SPECIFICATION Spec
CONSTANTS
    ann = ann
    bob = bob
    s1 = s1
    s2 = s2
    n1 = n1
    n2 = n2
    Nobody = Nobody
    Users = {ann, bob}
    SysOps = {bob}
    Sessions = {s1, s2}
    Logins <- TwoLogins
    Names = {n1, n2}
    Sizes = {1, 2}
    MaxFileBytes = 1
    MaxUserBytes = 2
    MaxFiles = 3
SYMMETRY Symmetric
INVARIANTS TypeOK LimitsHold RowsMatchBlobs

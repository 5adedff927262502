SPECIFICATION Spec
CONSTANTS
    ann = ann
    bob = bob
    s1 = s1
    s2 = s2
    Users = {ann, bob}
    SysOps = {bob}
    Sessions = {s1, s2}
    Logins <- TwoLogins
    MaxRows = 3
SYMMETRY Symmetric
INVARIANT ListedOnce

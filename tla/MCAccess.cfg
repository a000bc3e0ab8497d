CONSTANTS
    u1 = u1
    u2 = u2
    k1 = k1
    k2 = k2
    Users = {u1, u2}
    Keys = {k1, k2}
    UserRole <- MCUserRole
    ApiKeys <- MCApiKeys
    Secrets = {s1, s2}
    AccessLives = {0, 1}
    RefreshLives = {1, 2}
    MaxLife = 2
    MaxTokens = 3
SYMMETRY Symm
SPECIFICATION Spec
INVARIANTS
    TypeOK
    SessionsEnd
    AdmittedInRole

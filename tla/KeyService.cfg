SPECIFICATION Spec
CONSTANTS
    AuthThread = {a1, a2}
    AdminCall = {c1}
    Jti = {j1}
    Secret = {k1, k2}
    EnvKey = {e1}
    NoKey = NoKey
    MaxBoots = 2
SYMMETRY Symmetry
INVARIANTS KeysHonoured ProductionAuthenticates
CHECK_DEADLOCK FALSE

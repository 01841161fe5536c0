SPECIFICATION Spec
CONSTANTS
    Thread = {t1, t2}
    Body = {sun, moon}
    SidMode = {0, 1, 3}
    Tropical = Tropical
    NoThread = NoThread
SYMMETRY Symmetry
INVARIANTS ResultsAttested OwnAyanamsa

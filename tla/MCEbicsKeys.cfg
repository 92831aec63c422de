\* Two programs, five commands or dialogs.
CONSTANTS
    p1 = p1
    p2 = p2
    Proc = {p1, p2}
    Nobody = Nobody
    MaxRuns = 5
SPECIFICATION Spec
SYMMETRY Programs
INVARIANTS StatusIsTrue
PROPERTIES FlagsGrow
\* No more commands are started.
CHECK_DEADLOCK FALSE

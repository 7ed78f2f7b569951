SPECIFICATION Spec
CONSTANTS
    Callers = {c1, c2}
    MaxGrants = 4
    MaxMishaps = 2
SYMMETRY Symmetry
INVARIANT LiveTokenIsHeld

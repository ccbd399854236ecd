SPECIFICATION Spec
CONSTANTS
    p1 = p1  p2 = p2  p3 = p3
    None = None
    Proc <- MCThree
    Regimes <- MCReleaseRace
SYMMETRY MCSymmetry
INVARIANTS MutualExclusion
CHECK_DEADLOCK FALSE

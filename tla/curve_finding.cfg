\* The comment on GenericEval at t = 1.
SPECIFICATION Spec
CONSTANTS
    Unit = 4
    Curves <- MCCurves
    NaN = NaN
INVARIANTS
    Encloses

\* Every call of GenericEval on small curves.
SPECIFICATION Spec
CONSTANTS
    Unit = 4
    Curves <- MCCurves
    NaN = NaN
INVARIANTS
    EnclosesBelowOne
    EvaluatesCurve

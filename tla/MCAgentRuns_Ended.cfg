CONSTANTS
    Runs = {r1}
    Executions = {e1}
    Gated = {e1}
    Approvals = {a1}
    Attempts = {t1, t2}
    None = None
SYMMETRY Sym
SPECIFICATION Spec
PROPERTY EndIsFinal
CHECK_DEADLOCK FALSE

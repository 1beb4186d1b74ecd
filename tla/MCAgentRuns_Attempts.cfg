\* One run, two attempts on it, a tool that needs an approval and one that does
\* not, and one approval that a client may also post.
SPECIFICATION Spec
CONSTANTS
    Runs = {r1}
    Executions = {e1, e2}
    Gated = {e1}
    Approvals = {a1}
    Attempts = {t1, t2}
    None = None
SYMMETRY Sym
INVARIANTS RunsSafe NoRunIsAbandoned
PROPERTY RefusalIsFinal
CHECK_DEADLOCK FALSE

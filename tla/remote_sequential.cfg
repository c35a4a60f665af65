\* Requests that do not overlap, but may be abandoned or fail at any call.
SPECIFICATION Spec
CONSTANTS
    Inputs = {i1, i2}
    Queries = {q1}
    Oversized = {}
    Overlap = FALSE
    Abandon = TRUE
    Faults = {"fork", "send", "run", "shutdown"}
    NoRollbackChoices = {FALSE}
PROPERTY ImplementsLedger
\* The object can be shut down with every request ended.
CHECK_DEADLOCK FALSE

\* Requests of several callers on one object, interleaved at every event.
SPECIFICATION Spec
CONSTANTS
    Inputs = {i1, i2}
    Queries = {q1}
    Oversized = {}
    Overlap = TRUE
    Abandon = TRUE
    Faults = {"fork", "send", "run", "shutdown"}
    NoRollbackChoices = {TRUE, FALSE}
INVARIANTS BaseIsCommitted OwnVerdict LeftoversAreAbandoned
\* The object can be shut down with every request ended.
CHECK_DEADLOCK FALSE

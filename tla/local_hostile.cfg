\* Callers that overlap and abandon requests, and machine calls that throw.
SPECIFICATION Spec
CONSTANTS
    Inputs = {i1, i2}
    Queries = {q1}
    Oversized = {}
    Overlap = TRUE
    Abandon = TRUE
    Faults = {"store", "load", "remove", "send", "run"}
    NoRollbackChoices = {TRUE, FALSE}
INVARIANTS LeftoversAreFailures
PROPERTY AcceptedIsDurable

\* An input longer than the rx buffer, otherwise the most careful caller.
SPECIFICATION Spec
CONSTANTS
    Inputs = {i1, i2}
    Queries = {}
    Oversized = {i2}
    Overlap = FALSE
    Abandon = FALSE
    Faults = {}
    NoRollbackChoices = {FALSE}
INVARIANT AcceptedWasServed

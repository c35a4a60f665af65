\* One caller that finishes each request before the next; the calls that
\* precede the input may throw.
SPECIFICATION Spec
CONSTANTS
    Inputs = {i1, i2, i3}
    Queries = {q1}
    Oversized = {}
    Overlap = FALSE
    Abandon = FALSE
    Faults = {"store", "send"}
    NoRollbackChoices = {FALSE}
INVARIANTS AllOrNothing OwnVerdict StoredImageIsResumable
PROPERTY ImplementsLedger

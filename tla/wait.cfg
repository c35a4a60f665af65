\* Up to three attempts, run once more by the query.
SPECIFICATION PollingSpec
CONSTANTS
    MaxRetries = 2
    MaxQueries = 1
    Refusals = {"REJECTED", "EXCEPTION"}
INVARIANTS EndsByAnswer GivesUpWhenDue
PROPERTIES PollingEnds
\* The call may have ended.
CHECK_DEADLOCK FALSE

\* Every combination of plain, chained and broadcast handlers.
SPECIFICATION Spec
CONSTANTS
    MaxRequests = 2
    MaxHandlers = 2
INVARIANTS VerdictIsEarned EveryoneIsAsked FailuresAreReported
PROPERTY EveryRequestIsDecided
\* The loop ends when finish fails.
CHECK_DEADLOCK FALSE

\* A page that issues requests without waiting for answers, and may release
\* what it holds or stop the worker at any time.
SPECIFICATION Spec
CONSTANT MaxRequests = 4
INVARIANTS ReleaseIsOrdered HeldIsReachable CallsKeepOrder
PROPERTY EveryCallSettles
\* Nothing is left to do once the page has its answers.
CHECK_DEADLOCK FALSE

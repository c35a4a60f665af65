\* Three images and two jobs at once; and forms two changes away from what
\* an earlier visit left.
SPECIFICATION MCSpec
CONSTANTS
    MaxImages = 3
    MaxJobs = 2
    Null = Null
    ImageIds = {1, 2, 3}
    Malformed <- MCMalformed
    InitialSaves <- MCInitialSaves
    Changes <- MCChanges
    ItemChanges <- MCItemChanges
    MaxItems = 3
    MaxEdits = 2
INVARIANTS StaleListIsAnnounced BootsAreStocked InitKeepsToItsRanges BootIsComplete
PROPERTY FormSurvives
\* The page may be left alone for good.
CHECK_DEADLOCK FALSE

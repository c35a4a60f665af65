\* Two boots of a machine over one image that comes and goes, and a terminal
\* that is typed into and resized at any time.
SPECIFICATION Spec
CONSTANTS
    Images = {1}
    MaxBoots = 2
    MaxKeys = 2
    MaxOutputs = 1
    MaxUnderWay = 2
    Sizes = {80, 132}
INVARIANTS OneLoopDrives OutcomeIsOwn KeysArriveInOrder ConsoleIsOwn ConsoleFits
PROPERTY BootsEnd
\* The page may be left alone for good.
CHECK_DEADLOCK FALSE

\* Vectors start with room for one item, so every one of them grows.  A wild
\* free ends the program.
SPECIFICATION Spec
CHECK_DEADLOCK FALSE
CONSTANTS
    Names <- MCNames
    Start = "top"
    Kind <- MCKind
    Contents <- MCContents
    TooLong = {"long"}
    DefaultCapacity = 1
    MaxFailures = 3
    NULL = NULL
INVARIANT TypeOK
INVARIANT EveryBlockOwned
INVARIANT NothingTwice
INVARIANT RecordIsClosed
PROPERTY StepTellsWhatIsLeft
PROPERTY WalkEnds

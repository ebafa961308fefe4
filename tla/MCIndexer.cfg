\* Four events, two to a page; the scenes of MCIndexer.
CONSTANTS
    N = 4
    NaN = NaN
    None = None
    Lag = Lag
    Loops = {A, B}
    A = A
    B = B
    BatchSize = 2
    Scenes <- MCScenes
    Known <- MCKnown
    Height <- MCHeight
SPECIFICATION FairSpec
INVARIANT TypeOK
INVARIANT CheckpointIsAccounted
INVARIANT WriterKeepsOrder
PROPERTY OnceWithoutFaults
PROPERTY CheckpointAdvances
PROPERTY GoesQuiet
PROPERTY StrandedByWrites
CHECK_DEADLOCK FALSE

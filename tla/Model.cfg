SPECIFICATION FairSpec
CONSTANTS
    MaxAttempts = 2
    MaxEvents = 3
    Chunks <- MCChunks
INVARIANT OutputOnce
INVARIANT StreamAsWritten
INVARIANT HonestCompletion
INVARIANT BodiesClosed
PROPERTY CallEnds

\* Two requests at a time, one run behind what an earlier process left,
\* events of one to three units, of which two fit in a line and in the queue.
SPECIFICATION FairSpec
CONSTANTS
    c1 = c1
    c2 = c2
    Handler = Handler
    Callers = {c1, c2}
    Producers = {c1, c2, Handler}
    Sizes = {1, 2, 3}
    MaxLine = 2
    MaxQueue = 2
    MaxRuns = 1
    MaxEvents = 1
INVARIANT Registered
INVARIANT PagesRecovered
INVARIANT CancelsHeard
PROPERTY Streams
PROPERTY EverythingReturns
CHECK_DEADLOCK FALSE

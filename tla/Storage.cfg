\* One session, two tasks, failures of every call of the file system, a crash of the
\* machine at any moment.
SPECIFICATION FairSpec
CONSTANTS
    s1 = s1
    Sessions = {s1}
    Root = Root
    Keys <- MCKeys
    NoKey = NoKey
    t1 = t1
    t2 = t2
    Tasks = {t1, t2}
    IoFails = TRUE
    MaxEvents = 3
    MaxCrashes = 1
INVARIANT Readable
INVARIANT Durable
INVARIANT ListComplete
INVARIANT Exclusive
INVARIANT EntriesInUse
PROPERTY FirstComeFirstServed
PROPERTY CallsReturn
CHECK_DEADLOCK FALSE

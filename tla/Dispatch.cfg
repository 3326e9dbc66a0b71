CONSTANTS
    None = None
    Requests = {q1}
    MaxDispatch = 2
    MaxBoot = 2
    MaxTime = 5
    AcceptWindow = 1
    Retention = 4
    Deadline = 3
    ReplayFor = 4
SPECIFICATION FairSpec
INVARIANT RetryMeansNotRun
PROPERTIES KeepsPromise Answered
CHECK_DEADLOCK FALSE

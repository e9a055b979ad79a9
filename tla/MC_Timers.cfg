SPECIFICATION CoreSpec
CONSTANTS
    Starts = {0, 17}
    Intervals = {1, 6}
    Times <- MCTimes
    Deltas = {3, 7}
    MaxTimers = 2
    MaxNow = 18
    StepCount = 2
    MaxBinds = 5
    MaxNotifies = 3
    MaxNumber = 2
    MaxTime = 2
    MaxBack = 2
    Chunks = {1, 2, 3}
    N = 3
    Nodes = {1, 2, 3, 4}
    Lists = {1, 2}
    Temp = 3
INVARIANTS TimersInPlace BlocksAgree Ascending
PROPERTIES BoundedDisorder ImplementsTimer NodesImplement NeverAfterUnbind WalkComplete

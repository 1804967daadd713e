CONSTANTS
    HandSize = 16
    SortKeys = {0, 11, 12, 41}
    SortSizes = {1, 2, 3, 4, 5}
    HandKeys = {11, 12, 13}
    HandSizes = {4, 7}
    Jobs <- AllJobs
SPECIFICATION Spec
INVARIANT PartitionInRange
PROPERTY KeepsPromise
CHECK_DEADLOCK FALSE

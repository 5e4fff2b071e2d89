CONSTANTS
    Lines <- MCPairs
    Modes = {TRUE}
    MAX_VERTICES_IN_ONE_PARTITION = 2
    SUB_PARTITION_NUM = 3
    ALIGN_SIZE = 2
    Stray = {0, 2}
    Estimate <- MCEstimate
    MaxRange = 4
SPECIFICATION Spec
CHECK_DEADLOCK FALSE
INVARIANT Delivered

\* A member that is kicked while it is down.
CONSTANTS
    NoRecord = NoRecord
    Node = {c, m}
    Invite = {}
    KeyHolder = {c}
    Lazy = {}
    Founders = {c, m}
    FirstInvites = {}
    BaseGen = 3
    Threshold = 2
    Ops = {"kick", "restart"}
    MaxOps = 2
SPECIFICATION FairSpec
PROPERTIES RemovedNodesLeave
CHECK_DEADLOCK FALSE

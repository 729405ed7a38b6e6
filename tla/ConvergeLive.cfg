\* One key holder, and a member that may be kicked and join again.
CONSTANTS
    NoRecord = NoRecord
    Node = {c, m}
    Invite = {i1}
    KeyHolder = {c}
    Lazy = {}
    Founders = {c, m}
    FirstInvites = {i1}
    BaseGen = 3
    Threshold = 2
    Ops = {"join", "kick", "hint", "fetch_fails", "publish_fails"}
    MaxOps = 3
SPECIFICATION FairSpec
PROPERTIES RostersConverge RemovedNodesLeave
CHECK_DEADLOCK FALSE

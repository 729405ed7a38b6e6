\* One key holder, a member and a joiner, through everything but kicks, nukes and an
\* unreadable record.
CONSTANTS
    NoRecord = NoRecord
    Node = {c, m, j}
    Invite = {i1}
    KeyHolder = {c}
    Lazy = {}
    Founders = {c, m}
    FirstInvites = {i1}
    BaseGen = 3
    Threshold = 2
    Ops = {"join", "deny", "gossip", "leave", "restart", "hint", "fetch_fails"}
    MaxOps = 2
SPECIFICATION Spec

INVARIANTS TypeOK NoPhantomMembers
PROPERTIES ImplementsSignedRoster
CHECK_DEADLOCK FALSE

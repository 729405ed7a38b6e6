\* Two key holders with notify-driven publishers.
CONSTANTS
    NoRecord = NoRecord
    Node = {c1, c2}
    Invite = {}
    KeyHolder = {c1, c2}
    Lazy = {}
    Founders = {c1, c2}
    FirstInvites = {}
    BaseGen = 3
    Threshold = 2
    Ops = {"kick", "nuke", "stamp", "publish_fails", "resolve_fails"}
    MaxOps = 3
SPECIFICATION Spec
INVARIANTS SelfRemovalWasSigned NukeNeedsConsensus
CHECK_DEADLOCK FALSE

\* Two key holders with notify-driven publishers and late writes.
CONSTANTS
    NoRecord = NoRecord
    Node = {c1, c2}
    Invite = {i1}
    KeyHolder = {c1, c2}
    Lazy = {}
    Founders = {c1, c2}
    FirstInvites = {}
    BaseGen = 3
    Threshold = 2
    Ops = {"invite", "stamp", "publish_fails"}
    MaxOps = 3
SPECIFICATION FairSpec
PROPERTIES AheadGetsPublished

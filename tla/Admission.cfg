\* Two joiners that hash to the same address, through every operation.
CONSTANTS
    Node = {1, 2, 3}
    Addr = {0, 1, 2, 3}
    MaxIndex = 3
    derive_ip_with_index <- MCDerive
    Coord = 1
    Invite = {i1, i2}
    NoInvite = NoInvite
    Ops = {"join", "kick", "revoke", "expire", "restart", "hint"}
    MaxOps = 4
SPECIFICATION FairSpec

INVARIANTS RostersVerify InviteAdmitsOne WelcomedAreSeated
PROPERTIES MapsConverge
CHECK_DEADLOCK FALSE

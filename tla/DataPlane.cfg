SPECIFICATION Spec
CONSTANTS
    p1 = p1
    p2 = p2
    p3 = p3
    Packet = {p1, p2, p3}
    Info <- Long
    MaxDgram = {1200, 700, 0}
    BufferSize = 2700
    ChannelSize = 1
    IdSpace = 4
    MaxReassemblyEntries = 1
    ReassemblyTimeout = 1
    MaxTime = 1
    MaxEvents = 1

INVARIANTS ReceiverSound SenderSound
PROPERTIES BothFinish
CHECK_DEADLOCK FALSE

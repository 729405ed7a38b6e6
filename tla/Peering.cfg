SPECIFICATION Spec
CONSTANTS
    Conn = {c1, c2, c3}
    Addr = {a1, a2}
    Task = {t1, t2}
    NoConn = NoConn
    NoAddr = NoAddr
    MaxOps = 3

INVARIANTS OneDialInFlight NoDeadRoute
PROPERTIES Relinks RemovalStopsDials
CHECK_DEADLOCK FALSE

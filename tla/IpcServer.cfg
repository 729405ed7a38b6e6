\* Three connections and a command-line process, one general and one reserved
\* handler.
CONSTANTS
    Thread <- MCThread
    Job <- MCJob
    RacyWindow = 1
    MaxClock = 2
    MaxJobs = 4
    MaxCrash = 1
    Client <- MCClient
    Uid <- MCUid
    MaxClients = 1
    Reserved = 1
    MaxFaults = 1
SPECIFICATION FairSpec

INVARIANTS OnlyAuthorised
PROPERTIES AdminGetsIn EveryoneAnswered
CHECK_DEADLOCK FALSE

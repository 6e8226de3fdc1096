SPECIFICATION FairLogSpec
CONSTANTS
    e1 = e1
    e2 = e2
    e3 = e3
    current = current
    old = old
    Event = {e1, e2, e3}
    File = {current, old}
    Old = {old}
    FileOf <- FileOfEvent
    NoFd = NoFd
    Fd = {d1, d2, d3}
INVARIANTS LogTypeOK NoForgottenLine OpenIsCached ClosedMeansClosed
 
CHECK_DEADLOCK FALSE

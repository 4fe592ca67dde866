CONSTANTS
    p1 = p1  p2 = p2  p3 = p3
    Pid <- MCPid
    InitChildren <- MCInitChildren
    \* Descriptor 3 is the listener; accept() can hand out only 4 (the
    \* process is at its descriptor limit with one connection open).
    Fd = {3, 4}
    SigFd = 0
    InitFds = {3}
    ConnFd = {4}
    FdSetSize = 1024
    MaxConns = 2
    MaxOps = 2
SPECIFICATION Spec
INVARIANTS TypeOK ChildrenTracked
PROPERTIES DispatchCurrent EveryExitReaped

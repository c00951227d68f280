SPECIFICATION Spec
CONSTANTS
    Enqueuers = {"button", "psi"}
    Urgents = {"heart"}
    Dequeuer = "dequeue"
    Prio <- MCPrio
    Cap = 3
    MaxMsgs = 5
INVARIANT AcceptedIsKept

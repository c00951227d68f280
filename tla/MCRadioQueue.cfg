SPECIFICATION FairSpec
CONSTANTS
    Enqueuers = {"button", "psi"}
    Urgents = {"heart"}
    Dequeuer = "dequeue"
    Prio <- MCPrio
    Cap = 3
    MaxMsgs = 5
INVARIANTS TypeOK NeverOvertaken
PROPERTIES IsQueue EventuallyReset AcceptedIsSent

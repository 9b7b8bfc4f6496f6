\* Three io threads, three frames, one of them empty, every fault.
SPECIFICATION FairSpec
CONSTANTS
    t1 = t1
    t2 = t2
    t3 = t3
    f1 = f1
    f2 = f2
    f3 = f3
    NoThread = NoThread
    NoFrame = NoFrame
    Threads <- ThreeThreads
    Frames <- ThreeFrames
    EmptyFrames <- LastIsEmpty
    Faults <- AllFaults
INVARIANTS
    TypeOK
    FrontIsBorrowed
    NoLostWakeup
PROPERTIES
    ImplementsWriteQueue
    EventuallyReported
    CallsReturn

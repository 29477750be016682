SPECIFICATION Spec
CONSTANTS
    Polls = {p1, p2}
    RingMax = 2
    Page = 2
    SeenMax = 2
    MaxEvents = 3
    MaxFaults = 2
    Notable = {1, 3}
    p1 = p1
    p2 = p2
INVARIANTS
    TypeOK
    NotifiedOnce
PROPERTIES
    NoticeReachesChat

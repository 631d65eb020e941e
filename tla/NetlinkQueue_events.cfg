SPECIFICATION Spec
CONSTANTS
    Node = {n1, n2}
    Cpu = {c1, c2}
    Event = {e1, e2}
    NoEvent = NoEvent
    MsgHead = MsgHead
    FreeHead = FreeHead
    Poison = Poison
    MaxCredit = 2
INVARIANTS
    NodesAccounted
    OneAnswerEach
CONSTRAINT MCSound
PROPERTIES
    ChannelSpec
    EventsLeave
CHECK_DEADLOCK FALSE

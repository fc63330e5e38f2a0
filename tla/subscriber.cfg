SPECIFICATION SubscriberSpec
CONSTANTS
    InitNum = 0
    BuiltNums = {1}
    Rejected = {}
    MaxBuilt = 1
    EmptyCommits = FALSE
    Channel = {c1}
    Pattern = {p1}
    Holder = {h1}
    Asked = {}
    MaxCommits = 2
    MaxFaults = 1
    MaxCount = 2
    MaxMessages = 2
    c1 = c1
    p1 = p1
    h1 = h1
INVARIANTS
    CountersMatchServer
    NoGhostSubscription
    MessagesInOrder
    HeardOnceInOrder
    AnswersMatchDeque
CHECK_DEADLOCK FALSE

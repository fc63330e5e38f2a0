SPECIFICATION SubscriberFairSpec
CONSTANTS
    InitNum = 1
    BuiltNums = {1}
    Rejected = {}
    MaxBuilt = 1
    EmptyCommits = FALSE
    Channel = {c1}
    Pattern = {}
    Holder = {}
    Asked = {"PUBLISH", "PUBSUB"}
    MaxCommits = 2
    MaxFaults = 1
    MaxCount = 1
    MaxMessages = 1
    c1 = c1
PROPERTIES
    CommandsAnswered
    MessagesDispatched
CHECK_DEADLOCK FALSE

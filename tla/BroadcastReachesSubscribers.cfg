SPECIFICATION PushSpec
CONSTANTS
    Sockets = {s1, s2}
    Users = {u1}
    NoUser = NoUser
    Requests = {r1}
    Subscribable <- PushFeatures
    UserRows <- OneActiveUser
    MaxUserEdits = 0
    MaxPushes = 1
PROPERTY
    BroadcastReachesSubscribers
CHECK_DEADLOCK FALSE

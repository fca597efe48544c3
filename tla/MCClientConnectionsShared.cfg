SPECIFICATION Spec
CONSTANTS
    Sockets = {s1, s2}
    Users = {u1}
    NoUser = NoUser
    Requests = {r1}
    Subscribable <- SharedFeatures
    UserRows <- SharedRows
    MaxUserEdits = 1
INVARIANTS
    CollectorNoPhantom
    SubscribedInItsRoom
PROPERTIES
    LossMakesCollectorExact
CHECK_DEADLOCK FALSE

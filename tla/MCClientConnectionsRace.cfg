SPECIFICATION Spec
CONSTANTS
    Sockets = {s1}
    Users = {u1, u2}
    NoUser = NoUser
    Requests = {r1, r2}
    Subscribable <- RaceFeatures
    UserRows <- RaceRows
    MaxUserEdits = 0
INVARIANTS
    TypeOK
    RolesFollowAuth
    AuthenticatedInUserRoom
    VariablesReachTheirOwner
    AnnouncedIsCurrent
PROPERTIES
    AuthAnswered
CHECK_DEADLOCK FALSE

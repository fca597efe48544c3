SPECIFICATION DataSpec
CONSTANTS
    Sockets = {s1}
    Users = {u1}
    NoUser = NoUser
    Requests = {r1}
    Subscribable <- DataFeatures
    UserRows <- DataRows
    MaxUserEdits = 1
    Slots = {k1}
    MaxCounter = 1
INVARIANTS
    DataTypeOK
    NothingMissedWhileAsking
PROPERTIES
    InitialDataAreDue
    AsksAnswered

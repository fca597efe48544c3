SPECIFICATION OwnedSpec
CONSTANTS
    Clients = {c1, c2}
    Names <- TwoNames
    Passwords <- SomePasswords
    Rights <- SomeRights
    InitUsers <- OneAdmin
    MaxId = 2
    Patches <- OneColumn
    MaxEdits = 2
    Lost = {"error"}
    Absent = Absent
    Keep = Keep
    Rows = {r1}
    TestRows = {r1}
INVARIANTS
    OwnedTypeOK
    TokensDescribeRows
    CheckedAccountIsChanged
    OwnersExist
PROPERTIES
    RefusalsChangeNothing
    OnlyAdministratorsEdit
    OwnersAlone
    EveryRequestAnswered

SPECIFICATION Spec
CONSTANTS
    Clients = {c1}
    Names <- TwoNames
    Passwords <- SomePasswords
    Rights <- SomeRights
    InitUsers <- OneAdmin
    MaxId = 2
    Patches <- OneColumn
    MaxEdits = 1
    Lost = {}
    Absent = Absent
    Keep = Keep
PROPERTIES
    CommittedChangeIsConfirmed

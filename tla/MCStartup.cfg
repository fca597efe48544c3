SPECIFICATION Spec
CHECK_DEADLOCK FALSE
CONSTANTS
    Processes = {p1, p2}
    Others = {"bob"}
    Catalogue <- SmallCatalogue
    Switches <- OneSwitch
    Environments <- SomeEnvironments
    MaxStarts = 3
    MaxEdits = 2
INVARIANTS
    TypeOK
    CleanNeverStuck
    SeededUsersHaveVariables
    SwitchesAreKnown
PROPERTIES
    CleanStartIsUsable
    CleanStartListens

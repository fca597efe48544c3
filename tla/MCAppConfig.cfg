SPECIFICATION Spec
CONSTANTS
    Vars <- BothVars
    Order <- FlagFirst
    Booleans <- Flag
    Changed <- Flag
    Tables <- FlagTables
    LostAnswers = TRUE
    Text <- Texts
    EnvValue <- NameFromEnv
    Override = "true"
    Missing = Missing
    SetSlots = {p1, p2}
    LoadSlots = {l1}
SYMMETRY SameSlots
INVARIANTS
    TypeOK
    CoherentUnlessRaced
    AcknowledgedIsStored
PROPERTIES
    UnracedReloadRepairs
    KnownStaysKnown
    ImplementsStore

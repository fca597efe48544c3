SPECIFICATION Spec
CONSTANTS
    Users = {u1, u2}
    Vars <- TwoVars
    Text = {a, b}
    Missing = Missing
    Slots = {r1, r2}
    Tables <- AllTables
    LostAnswers = TRUE
INVARIANTS
    TypeOK
    LoneSetIsStored
    DeletedOwnsNothing
PROPERTY
    ImplementsStore

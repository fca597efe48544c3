SPECIFICATION Spec
CONSTANTS
    Users = {u1, u2}
    Vars <- TwoVars
    Text = {a, b}
    Missing = Missing
    Slots = {r1, r2}
    Tables <- EmptyTable
    LostAnswers = FALSE
INVARIANT
    NewVariableIsStored

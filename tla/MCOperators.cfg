SPECIFICATION Spec
CONSTANTS
    Users = {u1}
    NoUser = NoUser
    Numerals <- SomeNumerals
    Json <- SomeJson
    Cases <- SomeCases
    MaxItems = 2
    MaxDepth = 2
    MaxTexts = 2
    MaxRows = 4
    Masks <- SomeMasks
    Texts <- SomeTexts
INVARIANTS
    MasksAreSets
    RoleChecksAgree
    ValuesKeepTheirMeaning

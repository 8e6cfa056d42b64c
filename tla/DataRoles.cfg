SPECIFICATION Spec
CONSTANTS
    Commands <- Prepare
    Reaction <- LeanSays
    HasForbidden <- Refused
    Umbrella = "Mathlib"
    Prefixed <- PrefixedAll
    Quotes <- QuotesQ
    Placeholder = "sorry"
    Fits <- FitsAll
    RatioNum = 1
    RatioDen = 3
    Imports = {"Mathlib"}
    Workers = {w1, w2}
    MaxBuilds = 2
    MaxCrashes = 1
INVARIANTS TrainsOnVerified RolesDisjoint InnocentVerdict
CHECK_DEADLOCK FALSE

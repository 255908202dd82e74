SPECIFICATION Spec
CONSTANTS
    Headers <- MCHeaders
    Selectors <- MCSelectors
    NoSelector = NoSelector
    Mixture = Mixture
    MaxLen = 4
    MaxChanges = 2
    Rewrites = FALSE
INVARIANTS
    RebuiltIsTarget
    MissingIsMissing
PROPERTIES
    Terminates

CONSTANTS
    NumWays = 4
    Lines <- SixLines

SPECIFICATION Spec

INVARIANTS
    VictimUnambiguous

PROPERTIES
    ImplementsRecencyOrder


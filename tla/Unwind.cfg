SPECIFICATION Spec
CONSTANTS
    A = A
    E = E
    code = code
    o = o
    nested = nested
    inRow = inRow
    Null = Null
    Functions <- MCFunctions
    Table <- MCTable
    Size = 7
    Objects <- MCObjects
    Classes <- MCClasses
    Codes <- MCCodes
    Exception = E
    IsBaseOf <- MCIsBaseOf
    MaxDepth = 3
INVARIANTS StackSound CaughtByInnermost FinallyOnce
PROPERTIES ThrowEnds
CHECK_DEADLOCK FALSE

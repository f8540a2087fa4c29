\* One call of any function with any arguments.
CONSTANTS
    Symbols <- SomeSymbols
    Numbers <- SomeNumbers
    Options <- SomeOptions
    Lists <- SomeLists
    Times <- SomeTimes
    Stamps <- SomeStamps
SPECIFICATION Spec
CHECK_DEADLOCK FALSE
INVARIANTS
    SignatureAccepted
    ArgumentsArrive
    SymbolsArrive
    OutcomeKnown

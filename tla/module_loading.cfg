SPECIFICATION Spec
CONSTANTS
    Files <- MCFiles
    Entry = "m"
    Programs <- MCPrograms
    Null = Null
    None = None
INVARIANTS
    LoopsFound
    ConfiguredOnce
    CssInOrder
PROPERTIES
    Ends
CHECK_DEADLOCK FALSE
\* violated by the code: load-css keeps the ambient configuration
\* INVARIANT NullWithIsEmpty

SPECIFICATION Spec
CONSTANTS
    Labels = {"a"}
    MediaLists <- Lists
    AtRootQueries <- Queries
    Leaves = {"declaration", "comment"}
    Devices <- AllDevices
    MaxDepth = 3
    MaxNodes = 6
CONSTRAINT Focus
INVARIANTS ContextKept SourceOrder
\* violated by the code: what an @at-root (without: media) leaves still counts
\* INVARIANT AtRootClearsMedia
\* and by the same, or by a @media merged into one around it: rules that are still
\* to be returned into are gone past
\* INVARIANT NothingBehind
CHECK_DEADLOCK FALSE

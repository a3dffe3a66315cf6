SPECIFICATION Spec
CONSTANTS
    Names = {"x"}
    Forwarded = {"x"}
    Writes = {"implicit", "global"}
    Imports = {"use", "forward"}
    MaxDepth = 3
    MaxRunning = 2
    MaxScopes = 6
    MaxArrays = 3
CONSTRAINT Focus
INVARIANT LookupIsWalk
PROPERTY AssignsNearest
CHECK_DEADLOCK FALSE
\* violated by the code: a local variable nobody has looked up has no index
\* INVARIANT LocalShadowsGlobal

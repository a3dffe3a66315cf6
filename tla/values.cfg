SPECIFICATION Spec
INVARIANT ConversionKeeps
INVARIANT ColorsMix
INVARIANT ColorFunctionsAgree
INVARIANT ColorsRead
CHECK_DEADLOCK FALSE

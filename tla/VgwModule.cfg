CONSTANT MaxCalls = 2
SPECIFICATION Spec
INVARIANTS TypeOK AllOrNothing
PROPERTY OthersKept

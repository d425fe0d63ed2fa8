SPECIFICATION Spec
CONSTANTS
    Peers = {p1}
    Kinds = {"audio", "video"}
    None = None
    MaxObjects = 3
    Budgets <- CallAgain
INVARIANTS
    CallerProduces
CHECK_DEADLOCK FALSE

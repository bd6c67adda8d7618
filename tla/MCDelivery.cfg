SPECIFICATION Spec
CONSTANTS
    Clients <- Everyone
    ProxyStatuses <- AnyProxy
    BodyEnds <- AnyBody
    None = None
    Attempts = 3
INVARIANTS
    TypeOK
    SentMeansStored
    RefusedMeansNotStored
    AtMostOneCard
    CheckTellsTheKey
CHECK_DEADLOCK FALSE

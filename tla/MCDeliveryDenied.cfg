SPECIFICATION Spec
CONSTANTS
    Clients <- Lenient
    ProxyStatuses <- DenyingProxy
    BodyEnds <- WholeBody
    None = None
    Attempts = 3
INVARIANTS
    SentMeansStored
CHECK_DEADLOCK FALSE

SPECIFICATION MCSpec
CONSTANTS
    Void = Void
    None = None
    Off = Off
    Offers <- MCOffers
    Keys <- MCKeys
    MessageIds <- MCMessageIds
    Setters = 3
    First <- MCFirst
    Last = 2401
    CardYears = {1970, 2000, 2100}
    MonthDays <- MCMonthDays
    Clocks <- MCClocks
    Later = 1
    Nothing = Nothing
    Unread = Unread
    Lower <- MCLower
    Authorities = {"", "edge.example", "mast.tissue.dev"}
    KeyTexts = {"key"}
    OtherTexts = {"api"}
    Depth = 4
CHECK_DEADLOCK FALSE
INVARIANTS
    DoomedStayHere
    RefusedWereDoomed
    DaysCounted
    OpenForIsElapsed
    OpensWhatIsSpelled
PROPERTIES
    ReopensTheSame

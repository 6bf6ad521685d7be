SPECIFICATION Spec
CONSTANTS
    a1 = a1
    a2 = a2
    a0 = a0
    s1 = s1
    s2 = s2
    pwa = pwa
    eitaa = eitaa
    Article = {a1, a2}
    Source = {s1}
    SourceOf <- OnePolled
    Publishers <- FileFirst
    FileDestination = {pwa}
    DatesOf <- OneUpdate
    GiveUp = 2
    MaxFeedItems = 2
    OldItems <- OneItem
    Providers = 2
    CallAttempts = 2
    MaxItems = 2
    MaxPerHour = 1
    MaxAttempts = 2
    Hour = 1
    MaxAge = 0
    Tolerance = 0
    StaleFeed = 0
    MaxTime = 2
INVARIANTS TypeOK NoReposts AcknowledgedReceived RecordedRate FeedsLatest GivenUpJustly
PROPERTY BatchAdvances

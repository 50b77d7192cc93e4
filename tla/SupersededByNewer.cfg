SPECIFICATION Spec
CONSTANTS
    e1 = e1
    e2 = e2
    none = none
    h1 = h1
    h2 = h2
    s1 = s1
    inApp = inApp
    email = email
    Events <- MCEvents
    NoEvent <- none
    Handlers <- MCHandlers
    Sessions <- MCSessions
    Channels <- OneChannel
    MaxHandlings = 2
    MaxReadAgain = 2
    MaxItemVersion = 2
    MaxCrashes = 1
INVARIANT
    NewerSupersedes
CHECK_DEADLOCK FALSE

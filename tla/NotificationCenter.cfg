SPECIFICATION Spec
CONSTANTS
    e1 = e1
    e2 = e2
    none = none
    h1 = h1
    h2 = h2
    s1 = s1
    inApp = inApp
    email = email
    Events <- MCEvents
    NoEvent <- none
    Handlers <- MCHandlers
    Sessions <- MCSessions
    Channels <- MCChannels
    MaxHandlings = 3
    MaxReadAgain = 2
    MaxItemVersion = 3
    MaxCrashes = 1
SYMMETRY Symmetry
INVARIANTS
    TypeOK
    SupersessionConsistent
    EveryEventAccounted
PROPERTY
    SettledIsKept
\* every event may be handled as often as the bound allows, and the citizen done
CHECK_DEADLOCK FALSE

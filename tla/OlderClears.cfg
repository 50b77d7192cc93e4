SPECIFICATION Spec
CONSTANTS
    old = old
    again = again
    new = new
    other = other
    none = none
    h1 = h1
    h2 = h2
    recommendation = recommendation
    journey = journey
    e1 = e1
    e2 = e2
    Jobs <- MCJobs
    NoJob <- none
    Handlers <- MCHandlers
    Targets <- MCTargets
    SourceEvents <- MCSourceEvents
    TargetOrder <- MCTargetOrder
    TriggerType <- MCTriggerType
    FactVersion <- MCFactVersion
    SourceEvent <- MCSourceEvent
    MaxCrashes = 0
INVARIANT
    OlderCannotClear
CHECK_DEADLOCK FALSE

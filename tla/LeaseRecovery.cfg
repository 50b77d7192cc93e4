SPECIFICATION PollingSpec
CONSTANTS
    d1 = d1
    d2 = d2
    w1 = w1
    w2 = w2
    none = none
    Deliveries <- OneDelivery
    NoDelivery <- none
    Workers <- MCWorkers
    MaxRetries = 2
    RetryBackoff <- MCBackoff
    LeaseDuration = 1
    MaxVersion = 8
    MaxDelay = 2
PROPERTY
    LeaseRecovery

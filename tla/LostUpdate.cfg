SPECIFICATION Spec
CONSTANTS
    v1 = v1
    v2 = v2
    a1 = a1
    a2 = a2
    add1 = add1
    add2 = add2
    upd = upd
    rec = rec
    del = del
    none = none
    key = key
    Verifications <- MCVerifications
    Answers <- MCAnswers
    Additions <- MCAdditions
    Updates <- MCUpdates
    Reconciliations <- MCReconciliations
    Deletions <- MCDeletions
    NoRequest = none
    Key <- MCKey
    Submitted <- MCSubmitted
    MaxRequests = 3
PROPERTY
    NoLostUpdate
CHECK_DEADLOCK FALSE

SPECIFICATION KnowledgeSpec
CONSTANTS
    Refreshes = {r1, r2}
INVARIANT
    EveryUpdateVersioned
\* every refresh has ended
CHECK_DEADLOCK FALSE

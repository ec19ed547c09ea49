SPECIFICATION LiveSpec
CONSTANTS
    Requests = {r1, r2, r3}
    Workers = {w1, w2}
    MaxFaults = 2
CHECK_DEADLOCK FALSE
INVARIANTS PoolInv AnswerIsOwn OneFaultIsMasked
PROPERTIES RequestsEnd

SPECIFICATION RSpec
CONSTANTS
    w1 = w1
    w2 = w2
    b1 = b1
    b2 = b2
    Workers = {w1, w2}
    Customers = {}
    Bytes = {b1, b2}
    Tries = 2
    MaxDetached = 0
    MaxLapses = 0
    MaxCrashes = 1
    MaxFailures = 0
    MaxFaults = 1
SYMMETRY RenderingSymmetry
INVARIANTS
    CompletionIsAnswered
CHECK_DEADLOCK FALSE

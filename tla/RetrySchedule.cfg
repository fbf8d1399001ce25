SPECIFICATION Spec
CONSTANTS
    ExpCap = 8
    BaseInputs = {0, 1, 2, 3, 7, 50, 255}
    MaxInputs = {0, 1, 2, 5, 64, 100, 254, 255}
    MaxAttempts = 14
    Percents = {0, 20, 50, 99, 100}
INVARIANTS DelayIsDoubling JitterWithinBounds
PROPERTY DelaysNeverShrink
CHECK_DEADLOCK FALSE

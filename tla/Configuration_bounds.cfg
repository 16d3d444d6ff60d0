\* The boundaries of every range and the numbers next to them.
SPECIFICATION Spec
CONSTANTS
    Environments <- SomeEnvironments
    Unset = Unset
    NaN = NaN
    Boundaries = {1, 4, 50, 51, 100, 101, 999, 1000, 60000, 60001, 65536, 120000, 120001}
INVARIANTS
    StartedWithinBounds
\* A process is configured once.
CHECK_DEADLOCK FALSE

CONSTANTS
    Variants <- StressTest
    N = 8
SPECIFICATION Spec
INVARIANT RestartsRecur

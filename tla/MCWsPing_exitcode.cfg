CONSTANTS
    Variants <- AllTests
    N = 8
SPECIFICATION Spec
INVARIANT PassMeansAllEchoed

CONSTANTS
    Variants <- AllTests
    N = 8
SPECIFICATION Spec
INVARIANT TypeOK
INVARIANT ExitOkMeansAllEchoed
PROPERTY TestEnds

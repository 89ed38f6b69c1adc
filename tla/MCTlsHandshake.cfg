CONSTANTS
    Scenarios <- AllTests
    MaxInject = 3
SPECIFICATION TestsSpec
INVARIANT TypeOK
INVARIANT OldTypeOK
INVARIANT OldTrueMeansRefused
INVARIANT OldSocketsClosedOnReturn

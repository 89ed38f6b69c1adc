CONSTANTS
    Scenarios <- AllTests
    MaxInject = 3
SPECIFICATION TestsSpec
INVARIANT RandintRestored

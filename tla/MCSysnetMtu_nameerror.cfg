CONSTANTS
    Mtus <- DeviceMtus
    TestMtu = 1500
SPECIFICATION Spec
INVARIANT FailuresRaiseError

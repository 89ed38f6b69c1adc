CONSTANT BodyLens <- TestBodyLens
SPECIFICATION Spec
INVARIANT TypeOK
INVARIANT RoundTrip
CHECK_DEADLOCK TRUE

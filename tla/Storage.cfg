SPECIFICATION Spec
CONSTANT MaxVersion = 3
INVARIANTS RoundTrip NothingLost

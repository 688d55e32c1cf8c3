SPECIFICATION ExampleSpec
CONSTANTS
    Inputs <- MCExamples
INVARIANT UrisAreCreated
CHECK_DEADLOCK FALSE

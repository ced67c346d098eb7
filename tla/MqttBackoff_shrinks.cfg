SPECIFICATION Spec
CONSTANTS
    WordBits = 32
    InitialDelay = 1000
    MaximumDelay = 60000
    Jitter = 250
    AttemptsMax = 255
PROPERTY
    NeverShrinks

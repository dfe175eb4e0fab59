SPECIFICATION Spec
CONSTANTS
    W = 12
    H = 8
    Cap = 20
    Formats <- MCFormats
    Numbers <- MCNumbers
    Commands <- MCCommands
    Tails <- MCTails
INVARIANTS FormatsAsSpecified AgreesWithPrintf ParsesWhatWasTyped
CHECK_DEADLOCK FALSE

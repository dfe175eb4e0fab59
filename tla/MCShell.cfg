SPECIFICATION Spec
CONSTANTS
    Cap = 5
    Keys <- MCKeys
    sc_ascii <- MCPlain
    sc_ascii_shift <- MCShifted
    StopLines <- MCStopLines
    InfoLine <- MCInfoLine
    Symbols <- MCSymbols
    Calls <- MCCalls
    MaxAsleep = 3
INVARIANTS TypeOK LineIsTyped
PROPERTY RunsWhatWasTyped
CHECK_DEADLOCK FALSE

\* Two runs of up to two proposals: one phrase each, and a pattern that is too broad.
SPECIFICATION CycleSpec
CONSTANTS
    Regexes = {r1, r2}
    Broad = {r2}
    Phrases = {f1, f2}
    MaxProposals = 2
    MaxCycles = 2
INVARIANT EarnedStays
CHECK_DEADLOCK FALSE

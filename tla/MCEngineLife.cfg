SPECIFICATION FairSpec
CONSTANTS
    Workers = 2
    Addresses = {a1}
    MaxRuns = 2
INVARIANTS PathsAreCounted ServingIsWired
PROPERTIES CancelledEnds

SPECIFICATION FlowSpec
CONSTANTS
    f1 = f1
    f2 = f2
    f3 = f3
    Flows = {f1, f2, f3}
    LongFlows = {f1}
    SequenceSpace = 16
    MaxTracked = 2
    MaxPerFlow = 2
    MaxTotal = 2
    MaxSenders = 2
    MaxFrames = 5
SYMMETRY Interchangeable
INVARIANT AccountingMatches
PROPERTIES OutputInOrder NewFrameIsKept

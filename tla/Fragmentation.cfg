SPECIFICATION Spec
CONSTANTS
    Bytes <- MCBytes
    Payloads <- MCPayloads
    Lifetimes = {1}
    MaxCalls = 5
    MTUs = {46, 54, 62}
    PrimaryBytes = 4
    BlockBytes = 2
    Refragment = FALSE
    MaxOutputs = 2
    MaxReceived = 3
INVARIANTS ReassembledIsOriginal BlocksSurvive OneCallReassembles FragmentsFit
CHECK_DEADLOCK FALSE

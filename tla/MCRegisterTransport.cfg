CHECK_DEADLOCK FALSE
SPECIFICATION Spec
CONSTANTS
    PlainRegs = {"r"}
    UcRegs = {"u"}
    Bits = {1, 2}
    MaxCalls = 3
    MaxFailures = 2
INVARIANT TypeOK
PROPERTY ImplementsRegisters

SPECIFICATION Spec
CONSTANTS
    IRQs = {0, 1, 8}
    Places = {p1, p2}
    CodeSegment = CodeSegment
    DataSegment = DataSegment
    StubSegment = StubSegment
    Scratch = Scratch
INVARIANTS
    TypeOK
    NothingLeftInService
    ErrorCodeReturns
CHECK_DEADLOCK FALSE

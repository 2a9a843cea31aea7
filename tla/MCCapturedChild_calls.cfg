\* Two streams, a time limit or none, every failure, streams inherited or not.
CONSTANTS
    Streams = {"stdout", "stderr"}
    Calls <- SomeCalls
    PipeSize = 2
    Limit = 1
SPECIFICATION Spec
INVARIANTS TypeOK NoneLeftBehind SuccessIsWhole
PROPERTIES ContractSpec EndedIsReported CallReturns
CHECK_DEADLOCK FALSE

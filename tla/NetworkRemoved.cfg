CONSTANTS
    Targets = {status, x, y}
    Status = status
    Flags <- FlagSets
    MaxMessages = 3
    MaxBuffers = 3
SPECIFICATION Spec
PROPERTIES
    NetworkLeavesNothing

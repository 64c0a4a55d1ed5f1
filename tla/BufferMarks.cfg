CONSTANTS
    Targets = {status, x, y}
    Status = status
    Flags <- FlagSets
    MaxMessages = 3
    MaxBuffers = 3
SYMMETRY Symmetry
CONSTRAINT ThirdByTheBook
SPECIFICATION Spec
INVARIANTS TypeOK UnseenIsShown SavedUnlessDirty NothingLeft StoredOnceInOrder

\* A source that may store a PDU of a wrong size.
SPECIFICATION Spec
CONSTANTS
    pos1 = pos1
    status = status
    Order <- PosStatus
    EventThreads = {receiver}
    EpochValidation = FALSE
    EpochMod = 2
    CacheModes = {"latest"}
    ShortPdus = TRUE
    DstMayStop = FALSE
    MaxUpdates = 2
INVARIANT FrameWhole

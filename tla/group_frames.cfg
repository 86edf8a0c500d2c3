\* Frames of a group of two, from either kind of cache, with pauses, epoch switches and lost sends.
SPECIFICATION Spec
CONSTANTS
    pos1 = pos1
    status = status
    Order <- PosStatus
    EventThreads = {receiver}
    EpochValidation = TRUE
    EpochMod = 2
    CacheModes = {"latest", "queue"}
    ShortPdus = FALSE
    DstMayStop = TRUE
    MaxUpdates = 3
INVARIANT TypeOK
INVARIANT FrameFresh
INVARIANT FrameAdvances
INVARIANT FrameWhole
INVARIANT SomeMemberAwaited
PROPERTY ImplementsFrames

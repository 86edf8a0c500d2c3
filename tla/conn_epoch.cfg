\* Epoch changes and pauses against the loop and a receive thread; every policy is always due.
SPECIFICATION Spec
CONSTANTS
    k1 = k1
    Keys = {k1}
    Static = {tick, thr}
    Monitored = {}
    Tickers = {tick}
    Throttles = {thr}
    Interval = 0
    KeyOf <- MCKeyOf
    KindOf <- MCKindOf
    IntervalOf <- MCIntervalOf
    EventThreads = {recv}
    Loop = loop
    Admin = admin
    Monitor = monitor
    EpochValidation = TRUE
    EpochMod = 3
    SubscribeReplaces = FALSE
    ClockMod = 8
    Unreliable = {}
    MaxTime = 0
    Free = Free
    NoPdu = NoPdu
    NoDelivery = NoDelivery
    NoTransfer = NoTransfer
INVARIANT TypeOK
INVARIANT EpochSync
INVARIANT CyclicFresh
INVARIANT PauseStopsTransfers
PROPERTY PausedStartsNothing
PROPERTY AcceptsCurrentEpoch

\* Monitor transfers come and go while the loop, a receive thread and an administrator run.
SPECIFICATION Spec
CONSTANTS
    k1 = k1
    Keys = {k1}
    Static = {}
    Monitored = {mtick, mimm}
    Tickers = {mtick}
    Throttles = {}
    Interval = 0
    KeyOf <- MCKeyOf
    KindOf <- MCKindOf
    IntervalOf <- MCIntervalOf
    EventThreads = {recv}
    Loop = loop
    Admin = admin
    Monitor = monitor
    EpochValidation = TRUE
    EpochMod = 2
    SubscribeReplaces = TRUE
    ClockMod = 8
    Unreliable = {}
    MaxTime = 0
    Free = Free
    NoPdu = NoPdu
    NoDelivery = NoDelivery
    NoTransfer = NoTransfer
INVARIANT EpochSync
INVARIANT CyclicUsesLiveTransfers
PROPERTY ImplementsService

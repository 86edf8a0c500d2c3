\* The callback of a removed monitor transfer.
SPECIFICATION Spec
CONSTANTS
    k1 = k1
    Keys = {k1}
    Static = {}
    Monitored = {mimm}
    Tickers = {}
    Throttles = {}
    Interval = 0
    KeyOf <- MCKeyOf
    KindOf <- MCKindOf
    IntervalOf <- MCIntervalOf
    EventThreads = {recv}
    Loop = loop
    Admin = admin
    Monitor = monitor
    EpochValidation = FALSE
    EpochMod = 1
    SubscribeReplaces = TRUE
    ClockMod = 8
    Unreliable = {}
    MaxTime = 0
    Free = Free
    NoPdu = NoPdu
    NoDelivery = NoDelivery
    NoTransfer = NoTransfer
PROPERTY NoDeliveryAfterDetach

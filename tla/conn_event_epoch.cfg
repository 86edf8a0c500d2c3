\* The receive callback compares the epoch and sends later.
SPECIFICATION Spec
CONSTANTS
    k1 = k1
    Keys = {k1}
    Static = {imm}
    Monitored = {}
    Tickers = {}
    Throttles = {}
    Interval = 0
    KeyOf <- MCKeyOf
    KindOf <- MCKindOf
    IntervalOf <- MCIntervalOf
    EventThreads = {recv}
    Loop = loop
    Admin = admin
    Monitor = monitor
    EpochValidation = TRUE
    EpochMod = 2
    SubscribeReplaces = FALSE
    ClockMod = 8
    Unreliable = {}
    MaxTime = 0
    Free = Free
    NoPdu = NoPdu
    NoDelivery = NoDelivery
    NoTransfer = NoTransfer
INVARIANT EventFresh

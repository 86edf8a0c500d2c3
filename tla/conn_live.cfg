\* Throttle and ticker intervals, and a due tick is served.  The source is polled, so its
\* callbacks run on the loop thread; a single epoch.
SPECIFICATION FairSpec
CONSTANTS
    k1 = k1
    Keys = {k1}
    Static = {tick, thr}
    Monitored = {}
    Tickers = {tick}
    Throttles = {thr}
    Interval = 2
    KeyOf <- MCKeyOf
    KindOf <- MCKindOf
    IntervalOf <- MCIntervalOf
    EventThreads = {loop}
    Loop = loop
    Admin = admin
    Monitor = monitor
    EpochValidation = TRUE
    EpochMod = 1
    SubscribeReplaces = FALSE
    ClockMod = 8
    Unreliable = {thr}
    MaxTime = 4
    Free = Free
    NoPdu = NoPdu
    NoDelivery = NoDelivery
    NoTransfer = NoTransfer
PROPERTY TickServed
PROPERTY DeliveriesSpaced

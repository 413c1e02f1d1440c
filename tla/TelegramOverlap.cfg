SPECIFICATION TelegramSpec
CONSTANTS
    NoItem = NoItem
    Deliveries = {d1, d2}
    Senders = {s1, s2}
    MaxAttempts = 2
    DeliveryBatch = 2
    LoopFaults = {}
INVARIANTS NoConcurrentSends
CHECK_DEADLOCK FALSE

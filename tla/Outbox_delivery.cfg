CONSTANTS
    h1 = h1
    h2 = h2
    Delivery = {1, 2}
    Webhook = {h1, h2}
    HookOf <- TwoHooks
    Unsendable = {h1}
    Worker = {w1, w2}
    NoWorker = NoWorker
    MaxAttempts = 2
    Batch = 1
    MaxCrashes = 1
    MaxLosses = 1
SPECIFICATION FairSpec
INVARIANTS
    OutboxTypeOK
    SettledForAReason
    DuplicatesAreCrashes
PROPERTIES
    ChannelHolds
    EveryDeliverySettles

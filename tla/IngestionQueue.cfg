\* Two workers, two clients of whom one cancels, two runs for one key, batches of one chunk or two, leases of one tick.
CONSTANTS
    k1 = k1
    Workers = {w1, w2}
    Clients = {c1, c2}
    Cancellers = {c1}
    Runs = {1, 2}
    Keys = {k1}
    KeyOf <- TwoForOneKey
    Ordinals = {0, 1}
    Batches <- FirstOrBoth
    LeaseTicks = 1
    MaxAttempts = 2
SPECIFICATION Spec
INVARIANT QueueInv
INVARIANT LiveLeaseIsExclusive
INVARIANT ChunksAreOneBatch
PROPERTY SettledForGood
PROPERTY EveryJobSettles

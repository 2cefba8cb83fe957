\* One worker, one client, two runs for one key, batches of one chunk or two, leases of one tick.
CONSTANTS
    k1 = k1
    Workers = {w1}
    Clients = {c1}
    Cancellers = {}
    Runs = {1, 2}
    Keys = {k1}
    KeyOf <- TwoForOneKey
    Ordinals = {0, 1}
    Batches <- FirstOrBoth
    LeaseTicks = 1
    MaxAttempts = 2
SPECIFICATION Spec
PROPERTY FailsWhenExhausted

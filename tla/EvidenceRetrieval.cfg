\* One worker, two faults (crashes, upserts that land late), one reader, an index that
\* may answer anything.
CONSTANTS
    r1 = r1  r2 = r2
    b1 = b1
    c1 = c1  c2 = c2
    p1 = p1
    NoOne = NoOne
    w1 = w1  q1 = q1
    Workers = {w1}
    Readers = {q1}
    Runs = {r1, r2}
    Bindings = {b1}
    Chunks = {c1, c2}
    Policies = {p1}
    BindingOf <- TwoRuns
    ChunksOf <- OneShared
    PolicyOf <- OnePolicy
    Completed = {r1, r2}
    LateWrites = TRUE
    MaxFaults = 2
    Limit = 2
    UntrustedIndex = TRUE
SPECIFICATION RetrievalSpec
INVARIANT RetrievalInv
INVARIANT PinnedGenerationStaysComplete

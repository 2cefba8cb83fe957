\* An honest index over the points generate_index wrote.
CONSTANTS
    r1 = r1  r2 = r2
    b1 = b1
    c1 = c1  c2 = c2
    p1 = p1
    NoOne = NoOne
    w1 = w1  q1 = q1
    Workers = {w1}
    Readers = {q1}
    Runs = {r1, r2}
    Bindings = {b1}
    Chunks = {c1, c2}
    Policies = {p1}
    BindingOf <- TwoRuns
    ChunksOf <- TwoContents
    PolicyOf <- OnePolicy
    Completed = {r1, r2}
    LateWrites = FALSE
    MaxFaults = 0
    Limit = 2
    UntrustedIndex = FALSE
SPECIFICATION RetrievalSpec
INVARIANT FoundPointsGiveEvidence

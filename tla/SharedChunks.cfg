\* Two bindings of one document, one worker.
CONSTANTS
    w1 = w1  w2 = w2
    r1 = r1  r2 = r2
    b1 = b1  b2 = b2
    c1 = c1  c2 = c2
    NoOne = NoOne
    Workers = {w1}
    Runs = {r1, r2}
    Bindings = {b1, b2}
    Chunks = {c1, c2}
    BindingOf <- OneRunPerBinding
    ChunksOf <- OneSharedChunk
    Completed = {r1, r2}
    LateWrites = FALSE
    MaxFaults = 0
SPECIFICATION Spec
INVARIANT OldGenerationsStayReadable

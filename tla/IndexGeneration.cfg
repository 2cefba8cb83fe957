\* Two workers, two runs of one binding with a chunk in common, one fault: a crash or an
\* upsert that lands after its call has failed.  Fair workers.
CONSTANTS
    w1 = w1  w2 = w2
    r1 = r1  r2 = r2
    b1 = b1  b2 = b2
    c1 = c1  c2 = c2
    NoOne = NoOne
    Workers = {w1, w2}
    Runs = {r1, r2}
    Bindings = {b1}
    Chunks = {c1, c2}
    BindingOf <- TwoRunsOneBinding
    ChunksOf <- OneSharedChunk
    Completed = {r1, r2}
    LateWrites = TRUE
    MaxFaults = 1
SPECIFICATION FairSpec
INVARIANT TypeOK
INVARIANT OneBuilderPerRun
INVARIANT PublishedIndexComplete
PROPERTY IdentityIsStable
PROPERTY ReadersSeeWholeReplacements
PROPERTY EveryCallEnds

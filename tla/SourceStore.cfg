\* Two clients, one document, two contents.
CONSTANTS
    c1 = c1  c2 = c2
    h1 = h1  h2 = h2
    Clients = {c1, c2}
    Documents = {d1}
    Hashes = {h1, h2}
    NoHash = NoHash
SYMMETRY Symmetry
SPECIFICATION Spec
INVARIANT StoreInv
INVARIANT AnswersAreOriginals
PROPERTY NamedObjectsAreComplete

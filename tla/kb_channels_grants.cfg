\* Grants are stored: the BM25 channel against the dense one.
CONSTANTS
    d1 = d1  d2 = d2  ann = ann  bob = bob  i1 = i1  i2 = i2  i3 = i3
    NoImport = NoImport
    TextOf <- Texts
    ChunkSize = 4
    ChunkOverlap = 1
    Docs = {d1, d2}
    Principals = {ann, bob}
    Imports = {i1, i2}
    Searches = {s1}
    Catalog <- Published
    InServer = {i1, i2}
    Zone <- AheadOfUTC
    Rewrites = FALSE
    GrantStore = TRUE
    Overlap = FALSE
    MaxTime = 1
    MaxRestarts = 0
SPECIFICATION Spec
INVARIANTS ChannelsAgree

\* Imports in the process that searches, without a grant store.
CONSTANTS
    d1 = d1  d2 = d2  ann = ann  bob = bob  i1 = i1  i2 = i2  i3 = i3
    NoImport = NoImport
    TextOf <- Texts
    ChunkSize = 4
    ChunkOverlap = 1
    Docs = {d1, d2}
    Principals = {ann, bob}
    Imports = {i1, i2}
    Searches = {s1}
    Catalog <- Revising
    InServer = {i1, i2}
    Zone <- AheadOfUTC
    Rewrites = TRUE
    GrantStore = FALSE
    Overlap = TRUE
    MaxTime = 1
    MaxRestarts = 1
SPECIFICATION Spec
INVARIANTS AnswersOneVersion OneActiveVersion LexicalFollowsImport WholeTextStored

\* Grants are revoked by imports that may overlap and stop, while a principal searches.
CONSTANTS
    d1 = d1  d2 = d2  ann = ann  bob = bob  i1 = i1  i2 = i2  i3 = i3
    NoImport = NoImport
    TextOf <- Texts
    ChunkSize = 4
    ChunkOverlap = 1
    Docs = {d1, d2}
    Principals = {ann, bob}
    Imports = {i1, i2, i3}
    Searches = {s1}
    Catalog <- Revoking
    InServer = {}
    Zone <- AheadOfUTC
    Rewrites = FALSE
    GrantStore = TRUE
    Overlap = TRUE
    MaxTime = 1
    MaxRestarts = 0
SPECIFICATION Spec
INVARIANTS HitsEntitled SearchComplete LatestImportStands

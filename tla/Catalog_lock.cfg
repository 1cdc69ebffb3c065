CONSTANTS
    Txn = {t1, t2}
    Pk = {1, 2}
    BVal = {x}
    CVal = {}
    IndexName = {"i"}
    ViewBody = {v, w}
    Workload <- TwoSessions
    Explicit = TRUE
    BitsMaxIndex = 4
    MaxIndexId = 2
    None = None
    Null = Null
    Deleted = Deleted
SPECIFICATION Spec
SYMMETRY Symmetry
CONSTRAINT OnlyOverlap
PROPERTY CatalogFrozen

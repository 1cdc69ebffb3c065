CONSTANTS
    Txn = {t1}
    Pk = {1, 2}
    BVal = {x}
    CVal = {u}
    IndexName = {"i"}
    ViewBody = {v, w}
    Workload <- OneSession
    Explicit = FALSE
    BitsMaxIndex = 4
    MaxIndexId = 2
    None = None
    Null = Null
    Deleted = Deleted
SPECIFICATION Spec
INVARIANT KeysReadBack

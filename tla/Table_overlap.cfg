SPECIFICATION Spec
CONSTANTS
    Txn = {t1, t2}
    Pk = {1, 2}
    UVal = {a, b}
    NVal = {x}
    Modes = {"auto", "explicit"}
    Ops = {"insert", "overwrite", "update", "delete"}
    MaxStmts = 1
    None = None
    Unwritten = Unwritten
SYMMETRY Symmetry
CONSTRAINTS Untainted AutoAlone
INVARIANTS TypeOK IndexConsistent ReadsConsistent DuplicateUniqueIsReal
           ExecutorsConsistent InsertsTracked
PROPERTIES InsertNeverReplaces

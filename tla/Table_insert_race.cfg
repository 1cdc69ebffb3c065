SPECIFICATION Spec
CONSTANTS
    Txn = {t1, t2}
    Pk = {1, 2}
    UVal = {a, b}
    NVal = {x, y}
    Modes = {"explicit"}
    Ops = {"insert"}
    MaxStmts = 1
    None = None
    Unwritten = Unwritten
SYMMETRY Symmetry
PROPERTY SecondInsertFails

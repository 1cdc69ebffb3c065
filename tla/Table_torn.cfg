SPECIFICATION Spec
CONSTANTS
    Txn = {t1}
    Pk = {1, 2}
    UVal = {a, b}
    NVal = {x}
    Modes = {"explicit"}
    Ops = {"insert"}
    MaxStmts = 2
    None = None
    Unwritten = Unwritten
SYMMETRY Symmetry
INVARIANT DuplicateIsRealAfterError

CONSTANTS
    NumWare = 2
    DistPerWare = 2
    CustPerDist = 3
    Delivered = 1
    MaxItems = 2
    Named = 2
    FirstName <- FirstNames
    LoadCnt = 1
    Quantity = 10
    Workloads <- WorkloadSet
    MaxRetry = 1
    MaxRec = 1
    CkpEvery = 2
    MaxRounds = 4
    Null = Null
    None = None
    Nothing = Nothing
    Thread = {t1, t2, t3}
    Connection = {t1, t2}
    MaxQueries = 2
    Files <- CopyFiles
    Table <- CopyTable
    Keyed = {"a", "b", "c", "d", "e"}
SPECIFICATION ClientsSpec
INVARIANTS
    OrdersConsistent
    MoneyKept
    ResponsesCounted
    DdlAlone
    AnswersTrue
    ImportWhole
    ExportWhole
PROPERTIES
    RetriesEnd
    CallsReturn
    QueriesAnswered
    CopyEnds
CHECK_DEADLOCK FALSE

CONSTANTS
    Txs <- MCTxs
    Coins <- MCCoins
    Ins <- MCIns
    Outs <- MCOuts
    Sh <- MCSh
    Dsps <- MCDsps
    DspTx <- MCDspTx
    kRedoCtMax = 1
    kFailedDownloadMax = 1
    MaxEvents = 4
SPECIFICATION Spec
INVARIANTS
    TypeOK
    MempoolIsExact
    SyncedIsConsistent
    NobodyMissesAChange
    DspsCoverDescendants
PROPERTY
    CatchesUp

SPECIFICATION Spec
CONSTANTS
    g = g
    a1 = a1
    a2 = a2
    a3 = a3
    b2 = b2
    b3 = b3
    none = none
    s1 = s1
    s2 = s2
    TXOs <- MCTXOs
    ScriptHashes <- MCScriptHashes
    Blocks <- MCBlocks
    NoBlock = none
    Parent <- MCParent
    NTx <- MCNTx
    Spends <- MCSpends
    Creates <- MCCreates
    Touch <- MCTouch
    TxNum0 <- MCTxNum0
    UtxoAt <- MCUtxoAt
    HistAt <- MCHistAt
    UndoDepths = {1, 2, 3}
    MaxHeaders = 6
    InvalidUndoHeight = 99
INVARIANTS
    TypeOK
    IndexIsReplay
    UndoMatchesChain
    NeverCorrupt
    CopiesMatchDatabase
    EveryUndoWillExpire
    UtxoCtIsExact
    AnnouncedIsDurable
    UncleanStopIsRewound
PROPERTIES
    ImplementsHeaderChain

SPECIFICATION Spec
CONSTANTS
    r = r  a2 = a2  a3 = a3  b2 = b2  b3 = b3  e3 = e3
    cr = cr  ca2 = ca2  ca3 = ca3  cb2 = cb2  cb3 = cb3  ce3 = ce3
    t = t  s = s  c = c  u = u
    Tx <- MCTx
    Ins <- MCIns
    Outs <- MCOuts
    Block <- MCBlock
    Root <- r
    Chain <- MCChain
    Txs <- MCTxs
    FileNumber <- MCFileNumber
    MaxFileSize = 2
    BadBlock = {}
    CoinbaseMaturity = 1
    Standard <- MCStandard
    Size <- MCSize
    FeeRate <- MCFee
    MaxSize = 2
    ChainWork <- MCWork
    Indexed = {b2, b3, e3}
    MaxReorgDepth = 2
    PowerLoss = TRUE
    MaxCrashes = 1
    MaxFaults = 1
INVARIANTS
    TypeOK
    UtxoMatchesTip
    UndoReadsBack
    PoolIndexed
    NoneConfirmed
PROPERTIES
    AllOrNothing

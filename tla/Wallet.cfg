SPECIFICATION Spec
CONSTANTS
    g = g  x = x  w = w  a1 = a1  a2 = a2  a3 = a3  a4 = a4  b1 = b1  b2 = b2  b3 = b3
    c = c  d = d  pay1 = pay1  pay2 = pay2  pay3 = pay3  stake = stake  theft = theft
    Blocks <- MCBlocks
    Genesis = g
    NoBlock = noblock
    Parent <- MCParent
    Chain <- MCChain
    Height <- MCHeight
    Trust <- MCHeight
    Txs <- MCTxs
    NoTx = notx
    BlockTxs <- MCBlockTxs
    Inputs <- MCInputs
    Generated = {c, d, stake}
    Maturity = 1
    Mine = {c, d, pay1, pay2, stake}
    Own = {pay1, pay2, pay3}
    Stakes = {stake}
    Invalid = {a4}
    Period = 2
INVARIANTS
    RecordsFollowChain
    ConfirmedIsOnChain
    OfferedOnce
    OfferedIsUnspent

\* One client and a crash, or two overlapping requests.
CONSTANTS
    Requests = {"r1", "r2"}
    Providers = {"vps"}
    Dividends <- MCDividends
    Receipts <- MCReceipts
    Trades <- MCTrades
    LastDay = 3
    MaxEvents = 4
    MaxActions = 2
    MaxCrashes = 1
SPECIFICATION MCSpec
INVARIANTS PostingInv PostedOnceForOneClient
PROPERTIES OpeningNotPaidAgain DividendsArrive
\* The tables are full and the last day is over.
CHECK_DEADLOCK FALSE

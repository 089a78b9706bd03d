\* The process dies between the event and its posting row.
CONSTANTS
    Requests = {"r1"}
    Providers = {"vps"}
    Dividends <- MCDividends
    Receipts <- MCReceipts
    Trades <- MCTrades
    LastDay = 3
    MaxEvents = 3
    MaxActions = 2
    MaxCrashes = 1
SPECIFICATION MCSpec
INVARIANTS PostedOnce
\* The tables are full and the last day is over.
CHECK_DEADLOCK FALSE

\* One client, or two requests in flight; every ledger of up to six events.
CONSTANTS
    Parts = {"requests", "replay"}
    FPT = FPT
    SSI = SSI
    TCBS = TCBS
    PRIMARY = PRIMARY
    Symbols = {FPT}
    NoSymbol = NoSymbol
    Brokers = {SSI, TCBS, UNASSIGNED}
    Unassigned = UNASSIGNED
    Accounts = {PRIMARY}
    Templates <- MCTemplates
    Postings <- MCPostings
    MaxPosted = 6
    Requests = {r1, r2}
    r1 = r1
    r2 = r2
    MaxRows = 4
    MaxCorrections = 3
SPECIFICATION MCSpec
INVARIANTS LedgerInv BookInv
PROPERTIES FifoDisposal SoftDeleteFinal ImplementsForOneClient
\* The tables are full.
CHECK_DEADLOCK FALSE

\* One client, or two requests in flight.
CONSTANTS
    Parts = {"requests"}
    FPT = FPT
    SSI = SSI
    TCBS = TCBS
    PRIMARY = PRIMARY
    Symbols = {FPT}
    NoSymbol = NoSymbol
    Brokers = {SSI, TCBS, UNASSIGNED}
    Unassigned = UNASSIGNED
    Accounts = {PRIMARY}
    Templates <- MCTemplates
    Postings <- MCPostings
    MaxPosted = 6
    Requests = {r1, r2}
    r1 = r1
    r2 = r2
    MaxRows = 4
    MaxCorrections = 2
SPECIFICATION MCSpec
INVARIANT EverySaleOwned
CHECK_DEADLOCK FALSE

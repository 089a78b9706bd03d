\* One client and a crash, or two overlapping requests.
CONSTANTS
    Requests = {r1, r2}
    r1 = r1
    r2 = r2
    Symbols = {FPT, MWG}
    FPT = FPT
    MWG = MWG
    Deposit = Deposit
    Withdrawal = Withdrawal
    LastDate = 2
    HistoryLimit = 3
    MaxEvents = 3
    MaxRevisions = 1
    MaxCrashes = 1
SPECIFICATION MCSpec
INVARIANTS HistorySound FollowsForOneClient
PROPERTIES FlaggedForOneClient HealsForOneClient

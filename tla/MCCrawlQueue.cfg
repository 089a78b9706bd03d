SPECIFICATION MCSpec
CONSTANTS
  fpt = fpt
  shs = shs
  bs = bs
  is = is
  None = None
  Symbol = {fpt, shs}
  Doc = {bs, is}
  Worker = {w1, w2}
  Direct = {d1}
  Admin = {a1, a2}
  StartExchange <- MCStart
  StartDocuments <- MCStartDocuments
  MaxJobs = 2
  MaxCrashes = 1
  MaxSyncs = 1
INVARIANT QueueInv
PROPERTIES OutcomesKept CompletedMeansFetched JobsFinish

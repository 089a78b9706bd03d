SPECIFICATION Spec
CONSTANTS
  fpt = fpt
  shs = shs
  bs = bs
  is = is
  None = None
  Symbol = {fpt}
  Doc = {bs}
  Worker = {w1}
  Direct = {d1}
  Admin = {a1}
  StartExchange <- MCStart
  StartDocuments <- MCStartDocuments
  MaxJobs = 3
  MaxCrashes = 0
  MaxSyncs = 0
PROPERTIES SuccessPreserved

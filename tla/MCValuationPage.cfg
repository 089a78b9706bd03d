\* One evaluation of each company.  The function returns: there is no deadlock
\* to look for in it beyond the state in which it has returned.
CONSTANTS
  None = None
  Companies <- Companies1
  Listings <- Listings1
SPECIFICATION Spec
INVARIANT ListIsPage

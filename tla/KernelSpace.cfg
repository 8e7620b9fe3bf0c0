\* Single-block requests freed in any order, or any requests in reverse order.
SPECIFICATION Spec
CONSTANTS
  h1 = h1
  h2 = h2
  h3 = h3
  h4 = h4
  h5 = h5
  Total = 9
  Windows <- MCWindows
  Holders = {h1, h2, h3, h4, h5}
  Requests = {1, 2, 3}
INVARIANTS WindowsKept NoFreeBelowCursor
PROPERTY LeaseSpec

CONSTANTS
  MaxI64 = 2000000
  Venues <- MCOkx
  Listings <- MCListings
  Messages <- MCMessages
  MaxRelists = 1
SPECIFICATION Spec
INVARIANT ContractQtyExact

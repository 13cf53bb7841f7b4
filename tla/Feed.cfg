CONSTANTS
  MaxI64 = 2000000
  Venues <- MCVenues
  Listings <- MCListings
  Messages <- MCMessages
  MaxRelists = 2
SPECIFICATION Spec
INVARIANTS TradesExact BucketsFollowTicks ContractSizeKnown
PROPERTIES DiscoveryIsolates

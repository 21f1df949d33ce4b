SPECIFICATION Spec
CONSTANTS
  Err = Err
  None = None
  ValueMax = 100000000
  Dates <- MCDates
  Codes <- MCCodes
  Market <- MCMarket
  Listings <- MCListings
  First <- MCFirst
  Asks <- MCAsks
  Amendments <- MCAmendments
  MaxDays = 1
INVARIANTS TypeOK SentIsLawful OnlyUnlawfulDenied SentIsSnapped PricesExact
PROPERTIES ListedIsCached

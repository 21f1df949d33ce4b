SPECIFICATION Spec
CONSTANTS
  Err = Err
  None = None
  ValueMax = 100000000
  Dates <- MCDates
  Codes <- MCCodes
  Market <- MCMarket
  Listings <- MCListings
  First <- MCFirst
  Asks <- MCAsks
  Amendments <- MCAmendments
  MaxDays = 0
INVARIANT SentOnVenueGrid

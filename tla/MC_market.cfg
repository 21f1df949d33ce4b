SPECIFICATION FairSpec
CONSTANTS
  Err = Err
  Panic = Panic
  ValueMax = 100000000
  Dates = {}
  DepthLen = 2
  Stamps <- MCStamps
  LongIds <- MCLongIds
  Precisions <- MCPrecisions
  Frames <- MCFrames
  Replies <- MCReplies
  MaxInputs = 3
INVARIANTS TypeOK BookIsOneFrame ViewsAgree DealsToldApart EventsInOrder HistoryWhole
PROPERTIES QuoteKeepsUp EventsDelivered
CHECK_DEADLOCK FALSE

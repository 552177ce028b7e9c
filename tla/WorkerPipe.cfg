SPECIFICATION FairSpec
CONSTANTS
  Main = main
  NoThread = none
  Workers = {w1}
  MaxPosts = 2
INVARIANTS WakerMatchesQueue ServesAMessage
PROPERTIES ChannelSpec Delivery
CHECK_DEADLOCK FALSE

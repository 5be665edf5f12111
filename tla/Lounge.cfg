SPECIFICATION FairSpec
CONSTANTS
  Picture = picture
  Text = text
  Self = me
  Others = {other}
  Admin = admin
  Bot = bot
  MaxSockets = 2
  MaxHeard = 1
  MaxSaid = 1
  MaxTicks = 1
  Uploads <- Files
  Images <- Pictures
  Steps = 2
CHECK_DEADLOCK FALSE
INVARIANTS OneLink FeedIsTrue
PROPERTIES LinkComesBack UploadsComplete

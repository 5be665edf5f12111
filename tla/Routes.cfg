SPECIFICATION FairSpec
CONSTANTS
  Pid = {p1}
  Name = {"web", "web admin", "db"}
  FirstWord <- FirstWords
  Local = {1, 2}
  Uses <- Sockets
  MaxStarts = 2
  MaxClicks = 2
  Texts = {"", "web"}
CHECK_DEADLOCK FALSE
INVARIANTS RowsAreOfOneMoment PageAgrees
PROPERTIES ButtonGoesForward ButtonComesBack

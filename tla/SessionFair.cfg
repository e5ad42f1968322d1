CONSTANTS
  Daemons = {d1}
  Clients = {c1, c2}
  Dirs = {"run", "here", "deep"}
  Long = {"deep"}
  Relative = {"here"}
  Environments <- MCPlain
  NoOne = NoOne
  Backlog = 1
  MaxWakeups = 1
  Behaviours = {}
  Painter = c1
  Word = 16
  Pictures <- SmallPictures
  Screens <- SmallScreens
  FileSize = 3
  Blksize = 2
SPECIFICATION FairPictureSpec
INVARIANT
  PictureRight
PROPERTIES
  Delivered
  SignalEnds
\* Everybody exits in the end, or has crashed.
CHECK_DEADLOCK FALSE

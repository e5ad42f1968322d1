\* One user, a source in each directory, two runs of make, one change of a file and
\* one mishap, at any moment; the command lines
\* of cbs.h; and two questions to pkg-config.
SPECIFICATION MCSpec
CONSTANTS
  common_c = common_c
  ewctl_c = ewctl_c
  ewd_c = ewd_c
  Sources = {common_c, ewctl_c, ewd_c}
  Dir <- SmallDir
  Headers <- SmallHeaders
  NSec = 2
  Half = 100
  MaxEdits = 1
  MaxRuns = 2
  MaxFaults = 1
  Behaviours = {"kill", "fail", "long", "missing"}
  SizeofSize = 8
  SizeMax = 16777215
  Chars <- SmallChars
  ShellSafe = {"a"}
  Additions = {0, 1, 7, 256}
  Commands <- SmallCommands
  MaxArgs = 600
  Paths <- SmallPaths
  Texts <- SmallTexts
  PipeSize = 2
  Blksize = 3
  MaxLibs = 2
INVARIANTS
  SuccessCurrent
  ArgvRoom
  EchoReadable
PROPERTIES
  NothingTwice
  AnswerWhole
  MakeEnds
  QueryEnds
\* make is not started again after MaxRuns runs.
CHECK_DEADLOCK FALSE

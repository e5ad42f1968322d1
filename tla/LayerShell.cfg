\* One output and two wallpapers one after the other: every order of the requests and
\* events that cross on the wire.
SPECIFICATION FairSpec
CONSTANTS
  Outputs = {o1}
  Sizes = {1, 2}
  Offers = {1, 4}
  MaxLayers = 2
  MaxRepeats = 1
  MaxReqs = 2
INVARIANTS
  TypeOK
  ErrorCause
  InSync
PROPERTY
  Attended
\* The daemon exits, or its connection is gone.
CHECK_DEADLOCK FALSE

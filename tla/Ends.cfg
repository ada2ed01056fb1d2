\* What has to happen, a component at a time, see MCEnds.
SPECIFICATION Spec
CONSTANTS
  Nothing = Nothing
  NoOne = NoOne
  Malformed = Malformed
PROPERTIES EverythingEnds
CHECK_DEADLOCK FALSE

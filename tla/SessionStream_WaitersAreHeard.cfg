\* A reader that resumes and one whose submission is refused.
SPECIFICATION Spec
CONSTANTS
  MaxMsgs = 3
  Answers = {2}
  Turns = {"t1", "t2"}
  TurnOf <- ThreeTurns
  Readers = {"r1", "r2"}
  Any = Any
  Unread = Unread
  MaxFrames = 1
  MaxItems = 2
  MaxComplete = 1
  MaxQueue = 2
  Versions <- OneTwice
  MaxVersion = 2
  MaxEpochs = 1
CHECK_DEADLOCK FALSE
INVARIANTS
  WaitersAreHeard

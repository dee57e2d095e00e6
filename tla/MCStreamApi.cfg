SPECIFICATION FairSpec
CONSTANTS
  Streams = {"list"}
  Singles = {"single"}
  Size <- MCSize
  Asked <- MCAsked
  Pool <- MCPool
  MaxTries = 2
  MaxConcurrent = 1
INVARIANTS
  SlotsBound
  AnswersComplete
  RotatesBeforeGivingUp
PROPERTIES
  StreamEnds
  ChildrenReaped
CHECK_DEADLOCK FALSE

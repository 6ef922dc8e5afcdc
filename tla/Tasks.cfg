\* Every command under every setting.
SPECIFICATION FairSpec
CONSTANTS
  FlagSets <- EverySetting
  TaskCommands <- EveryCommand
INVARIANTS
  TasksAreKnown
  StepsOnce
  UpdatesComeLast
PROPERTIES
  CommandEnds
  FollowsPlan
CHECK_DEADLOCK FALSE

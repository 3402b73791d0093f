SPECIFICATION Spec
CONSTANTS
  WakeupNulls = 1
  ExpectedNulls = 1
  PriorityCapacity = 3
  StringCapacity = 2
  MaxRows = 2
  MaxColumns = 2
  MaxFrame = 18
  Sockets = {s1}
  Commands <- MCCommands
  Crafted <- MCCrafted
  Breakable <- MCBreakable
  Slack = 1
  MaxFrames = 3
  MaxSplit = 2
CHECK_DEADLOCK FALSE
INVARIANTS
  SimulatorInv
  WholeFramesAreFound
  NothingIsHeldBack
  NoTruncationIsInvented
  CommandsReadAsMeant
  SpansCoverTheFrame
  HeldWhereAllocated
  AlertsEndByRelease
  QuietLossesAreNoted

SPECIFICATION Spec
CONSTANTS
  Plain <- MCPlain
  CmdValues = {0, 5}
  Remaining = {1}
  MaxCmds = 2
INVARIANTS
  PopupOnSelectedTab
  NoTornBattery
  DisplayMatchesEc
  CommandsInOrder
PROPERTIES
  DrawEnds
  CommandsReachEc

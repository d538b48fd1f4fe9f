SPECIFICATION FairSpec
CONSTANTS
  pad1 = pad1
  pad2 = pad2
  Spots = {origin, up, pad1, pad2}
  Origin = origin
  Up = up
  Top = 3
  Lift = 2
  Ceiling = 4
  Markers <- TwoPads
  NaN = NaN
  MaxActivations = 2
INVARIANTS TypeOK LandsAtMarkerHeight OneModeCommands
PROPERTIES DescendsToMarker PhaseEnds
CHECK_DEADLOCK FALSE

SPECIFICATION Spec
CONSTANTS
  target_type = "MANUAL_TARGET"
  waypoint_num = 1
  realworld = FALSE
  drone_id = 0
  OtherDrones = {}
  Goals = {g1}
  SwarmMsgSizes = {}
  NoPoint = NoPoint
PROPERTY DepthLostStops
CHECK_DEADLOCK FALSE

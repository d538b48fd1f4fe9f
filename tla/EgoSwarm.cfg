\* The second drone of a swarm, with preset waypoints.
SPECIFICATION Spec
CONSTANTS
  target_type = "PRESET_TARGET"
  waypoint_num = 3
  realworld = TRUE
  drone_id = 1
  OtherDrones = {0, 2}
  Goals = {}
  SwarmMsgSizes = {0, 1, 2}
  NoPoint = NoPoint
INVARIANTS TypeOK TrajectoryBeforeUse GoalFollowed
PROPERTIES TriggeredStart WaypointsInOrder

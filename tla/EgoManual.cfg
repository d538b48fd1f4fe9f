\* The parameters of slam_navigation_launch.py (whose entry for the planner is
\* commented out): one drone, goals sent by hand or by the navigation mode.
SPECIFICATION FairSpec
CONSTANTS
  target_type = "MANUAL_TARGET"
  waypoint_num = 1
  realworld = FALSE
  drone_id = 0
  OtherDrones = {}
  Goals = {g1, g2}
  SwarmMsgSizes = {}
  NoPoint = NoPoint
INVARIANTS StopIssued GoalFollowed IdleHasNoTarget
PROPERTIES StoppedForGood EmergencyAnswered NewTargetPlanned NoHangAtEnd
CHECK_DEADLOCK FALSE

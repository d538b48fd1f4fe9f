SPECIFICATION FairSpec
CONSTANTS
  MaxReady = 2
  MaxActivations = 2
INVARIANTS TypeOK PlannerSurvives FailureEndsProcess
PROPERTIES FirstAscentEnds NavigationStarts

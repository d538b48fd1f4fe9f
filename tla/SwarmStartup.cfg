\* Three drones: a first, a middle and a last one; one second tour or restart.
SPECIFICATION Spec
CONSTANTS
  N = 3
  realworld = TRUE
  MaxFinishes = 2
  MaxRestarts = 1
  MaxInFlight = 2
INVARIANTS TypeOK ChainsComplete NoSilentWait
PROPERTY StartOrderImplemented

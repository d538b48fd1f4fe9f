\* Messages of one and of three parts; three process stops.
SPECIFICATION Spec
CONSTANTS
  Sizes = {1, 3}
  MaxSent = 4
  MaxStops = 3
INVARIANT TypeOK
PROPERTY FifoImplemented
CHECK_DEADLOCK FALSE

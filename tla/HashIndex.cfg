SPECIFICATION Spec
CONSTANTS
  Width = 32
  SampleKeys <- Samples
  Capacities = {2, 3, 64, 16384}
INVARIANT IndexInRange

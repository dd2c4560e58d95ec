SPECIFICATION Spec
CONSTANTS
  GracePolls = 2
  Elsewhere = FALSE
  MaxFaults = 1
PROPERTY Relinkable

CONSTANTS
  regCount = 2
  PRFCount = 5
  nCheckpoints = 2
  RobDepth = 2
  Kinds = {"op", "long", "lui", "br", "jal"}
SPECIFICATION Spec
VIEW LiveView
INVARIANTS RegistersExact ValidExact

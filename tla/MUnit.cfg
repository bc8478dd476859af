CONSTANTS RobAddr = {s1, s2, s3}
          BranchBits = {0}
          Counts = {0, 3}
SPECIFICATION UnitFairSpec
INVARIANT GateSafe
PROPERTIES ImplementsPool GateReopens

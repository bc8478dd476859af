CONSTANTS Depth = 4
          Entry = {a, b}
          NumWritePorts = 0
SPECIFICATION Spec
INVARIANT Consistent
PROPERTY ImplementsQueue

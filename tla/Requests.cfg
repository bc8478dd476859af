CONSTANTS Depth = 2
          Reserve = 1
          Shadow = 1
          Bits = {0, 1}
          Dwords = {d1, d2}
SYMMETRY DwordSymmetry
VIEW LiveView
SPECIFICATION Spec
INVARIANT NoRequestDropped
PROPERTY ImplementsOrder

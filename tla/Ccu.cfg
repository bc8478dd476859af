CONSTANTS Ports = {0, 1, 2}
          Lines = {a, b}
          NoLine = none
          Sent <- Roles
          Found = {{}, {"data"}, {"data", "dirty"}}
          Beats = 2
          QueueDepth = 1
          L2Depth = 2
SYMMETRY LineSymmetry
VIEW LiveView
SPECIFICATION Spec
INVARIANTS StagesExact CoherentDelivery

CONSTANTS Ports = {0, 1}
          DPorts = {0, 1}
          Lines = {a}
          Beats = 2
          QueueDepth = 3
SPECIFICATION FairSpec
PROPERTIES ImplementsBusOrder AcceptedIsQueued EveryRequestAccepted

CONSTANTS Ports = {0, 1}
          Lines = {a}
          NoLine = none
          Sent <- Writers
          Found = {{}, {"data"}}
          Beats = 1
          QueueDepth = 1
          L2Depth = 2
SPECIFICATION FairSpec
PROPERTY NothingBlocks

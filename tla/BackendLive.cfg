CONSTANTS Depth = 2
          Bits = {0}
          IssueDepth = 1
          MaxGen = 1
          Kinds = {"store", "amo", "br", "mext", "lui"}
SPECIFICATION FairSpec
PROPERTIES HeadRetires

CONSTANTS Depth = 4
          Bits = {0, 1}
          IssueDepth = 2
          MaxGen = 2
          Kinds = {"alu", "bad"}
SPECIFICATION Spec
INVARIANTS ReadyInsideRobWindow

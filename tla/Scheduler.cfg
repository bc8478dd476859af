CONSTANTS s1 = s1  s2 = s2  s3 = s3  s4 = s4
          Slot = {s1, s2, s3, s4}
          Bits = {0}
          Classes = {"alu", "mem"}
          instrIssueDepth = 3
SPECIFICATION IssueSpec
SYMMETRY SlotSymmetry
PROPERTY ImplementsIssueOrder

CONSTANTS Depth = 3
          Bits = {0, 1}
          IssueDepth = 2
          MaxGen = 1
          Kinds = {"br", "load", "store"}
SPECIFICATION Spec
VIEW LiveView
INVARIANTS SpeculationExact CompletionsOwnTheirSlot NoLostInstruction
PROPERTY SquashExact

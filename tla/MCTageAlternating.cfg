CONSTANTS
  TableNum <- MCTableNum
  IndexSize <- MCIndexSize
  Pcs = {}
  MaxBranches = 0
  ScenarioPc = 1
  Pattern <- MCAlternating

SPECIFICATION ScenarioSpec
PROPERTY EventuallyAlwaysCorrect

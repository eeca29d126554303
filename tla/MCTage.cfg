CONSTANTS
  TableNum <- MCTableNum
  IndexSize <- MCIndexSize
  Pcs <- MCPcs
  MaxBranches <- MCMaxBranches

SPECIFICATION Spec
INVARIANT TypeOK
PROPERTY UsefulEntryNotReplaced NoAllocationAtOrBelowProvider
\* The branch stream is finite: the model stops after MaxBranches calls.
CHECK_DEADLOCK FALSE

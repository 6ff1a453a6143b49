SPECIFICATION Spec
CONSTANTS
  N = 6
  nil = nil
  zero = zero
  a = a
  p = p
  q = q
  A = A
  B = B
  C = C
  D = D
  E = E
  F = F
  Nil <- nil
  Zero <- zero
  Leaf <- MCLeaf
  Block <- LoopBlock
  Graph <- LoopGraph
  Dom <- LoopDom
  Reached <- LoopReached
  Programs <- LoopPrograms
  Word <- MCWord
  Cell <- MCCell
  Compute <- MCCompute
  Returns <- MCReturns
  Clobbered <- MCClobbered
  Env <- LoopEnvs
  Path <- LoopPaths
  Edge <- MCEdge
  Loops <- MCLoops
  Global <- MCGlobal
PROPERTY CountedStoresAlwaysExecute

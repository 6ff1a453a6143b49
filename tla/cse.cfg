SPECIFICATION Spec
CONSTANTS
  N = 6
  nil = nil
  zero = zero
  a = a
  p = p
  q = q
  A = A
  B = B
  C = C
  D = D
  Nil <- nil
  Zero <- zero
  Leaf <- MCLeaf
  Block <- MCBlock
  Graph <- MCGraph
  Dom <- MCDom
  Reached <- MCReached
  Programs <- CSEPrograms
  Word <- MCWord
  Cell <- MCCell
  Compute <- MCCompute
  Returns <- MCReturns
  Clobbered <- MCClobbered
  Env <- MCEnvs
  Path <- MCPaths
INVARIANTS
  NoDanglingUse
  DefsDominateUses
  IteratorValid
  StatsBalance
  EffectsKept
  SoundOnPlainMemory
PROPERTIES
  RefinesRewriter
  Termination

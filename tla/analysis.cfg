SPECIFICATION Spec
CONSTANTS
  F = F
  G = G
  Function <- MCFunction
  Shapes <- MCShapes
  NULL = NULL
  Unknown = Unknown
  MaxEdits = 1
INVARIANTS
  AnswersFresh
  DepthRight
  WalkComplete
PROPERTY
  WalkEnds

SPECIFICATION LSpec
CONSTANTS
  W = 3
  Span = 8
  Poison = Poison
  None = None
  Var = {x}
  Field = {f, g}
  Index = {0, 2}
  MaxIds = 2
  MaxOpen = 2
  Bounds <- MCBounds
  Operand <- MCOperand
INVARIANT RangesReadNamedBits

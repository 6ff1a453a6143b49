SPECIFICATION LoopsSpec
CONSTANTS
  NULL = NULL
  Junk = Junk
  List = {l1, l2}
  Elt = {e1, e2, e3, e4}
  Key = {1, 2, 3}
INVARIANTS
  LinkedWhenUsed
  WalkComplete
PROPERTIES
  RefinesLists
  LoopsEnd

\* Two categories of four items; capacity three, with stale copies behind the last row.
SPECIFICATION Spec
CONSTANTS
  a = a
  b = b
  c = c
  d = d
  NoItem = NoItem
  Cap = 3
  KeyCategory = 0
  Categories <- TwoCategories
  Items <- FourItems
SYMMETRY ItemSymmetry
INVARIANTS TypeOK
PROPERTIES DuplicatesAreNotAdded ImplementsAssocList
\* Nothing happens any more once the set is destroyed.
CHECK_DEADLOCK FALSE

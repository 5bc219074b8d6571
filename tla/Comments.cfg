CONSTANTS
  t1 = t1
  t2 = t2
  v1 = v1
  v2 = v2
  Shapes <- MCShapes
  Texts = {t1, t2}
  MaxEdits = 2
  None = None
SPECIFICATION Spec
INVARIANTS TypeOK CommentsKept CommentsOnce
SYMMETRY Symmetry
CHECK_DEADLOCK FALSE

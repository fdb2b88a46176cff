SPECIFICATION Spec
CONSTANTS
  p1 = p1
  p2 = p2
  Procs = {p1, p2}
  InitProc = p1
  NPAGES = 18
  PGSIZE = 2
  UINT = 128
  MaxSize = 6
  Increments <- MCIncrements
  Programs <- MCPrograms
  Images <- MCImages
  Denials <- MCDenials
INVARIANTS SizeMapped PanicsOnlyStarved CopiesExactly
PROPERTIES PagesAccounted
CHECK_DEADLOCK FALSE
VIEW MCView

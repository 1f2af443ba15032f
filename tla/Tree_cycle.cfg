SPECIFICATION Spec
CONSTANTS
  root = root
  a = a
  b = b
  f = f
  x = x
  y = y
  Root = root
  Folders = {a, b}
  Files = {f}
  Names = {x, y}
  Tasks = {t1, t2}
  Starts <- MCStarts
  NoId = NoId
  NoName = NoName
  NoTask = NoTask
  MaxDepth = 2
  MaxCalls = 2
  MaxCrashes = 0
SYMMETRY Symmetry
INVARIANT NoDirectoryWithinItself
CHECK_DEADLOCK FALSE

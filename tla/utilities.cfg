SPECIFICATION Spec
CONSTANTS
  none = none
  root = root
  net = net
  gui = gui
  h1 = h1
  h2 = h2
  Indices <- TableIndices
  Values = {1, 2}
  GroupSize = 17
  None = none
  Points <- CodePoints
  MaxPoints = 2
  Units <- CodeUnits
  MaxLength <- TextLengths
  Observer = {o1, o2}
  Nobody = none
  MaxSlots = 3
  MaxWalks = 2
  Threads = {t1, t2}
  Loggers = {root, net, gui}
  Parent <- TreeParent
  Handlers = {h1, h2}
  Home <- TreeHome
  Levels = {0, 1}
  NoLogger = none
  NoHandler = none
  NoThread = none
INVARIANTS FindsContent ConversionExact NotifiedExactly HandlersGuarded
CHECK_DEADLOCK FALSE

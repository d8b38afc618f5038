CONSTANTS
  d1 = d1  d2 = d2  w1 = w1  w2 = w2
  Runs = {w1, w2}
  Datasets = {d1, d2}
  Library <- SmallLibrary
  ArgSet <- SmallArgs
  Mortal = {w1}
  MaxStarts = 3
  MaxText = 7
  MaxSize = 5
  Missing = Missing
  NoNumber = NoNumber
SPECIFICATION Spec
INVARIANTS TypeOK SplitIsSound FreshIsWhole TitlesMatchText
PROPERTIES KeptUnlessOverride
CHECK_DEADLOCK FALSE

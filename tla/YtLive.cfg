CONSTANTS
  s1 = s1  s2 = s2  t1 = t1  t2 = t2
  l1 = l1  l2 = l2  e1 = e1  e2 = e2  a1 = a1  c1 = c1  g1 = g1
  Blank = Blank
  NoText = NoText
  Fetched = {t1, Blank}
  NoSource = NoSource
  Sources = {s1, s2}
  Texts = {t1}
  ChunkNos = {1}
  BatchSize = 1
  Loaders = {l1, l2}
  Embedders = {e1}
  Analysts = {a1}
  Clis = {}
  Legacy = {}
  Watch = {l2, e1, a1}
  Mortal = {l1}
  Prompt = TRUE
  MaxWords = 5
  MaxBytes = 6
SPECIFICATION FairSpec
PROPERTIES EventuallySettled LoadedIsClaimed
CHECK_DEADLOCK FALSE

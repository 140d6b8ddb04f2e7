\* Two invocations are handed one message up to three times and wait for each
\* other on its row, while its source is edited.  The message settles.
SPECIFICATION FairSpec
CONSTANTS
  i1 = i1
  m1 = m1
  m2 = m2
  m3 = m3
  None = None
  Item = {i1}
  Schema = {news, market}
  Message = {m1}
  Worker = {w1, w2}
  ItemOf <- OneMessage
  Unparsable = {}
  BadHash = {}
  MaxReceive = 3
  BatchSize = 1
  Recategorises = TRUE
PROPERTY
  EveryMessageSettles
CHECK_DEADLOCK FALSE

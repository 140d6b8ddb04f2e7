\* The same article stored in two schemas after its source was recategorised.
SPECIFICATION Spec
CONSTANTS
  i1 = i1
  m1 = m1
  m2 = m2
  m3 = m3
  None = None
  Item = {i1}
  Schema = {news, market}
  Message = {m1, m2}
  Worker = {w1}
  ItemOf <- SameItem
  Unparsable = {}
  BadHash = {}
  MaxReceive = 2
  BatchSize = 1
  Recategorises = TRUE
INVARIANT
  OneItemPerRawItem

\* Two invocations, two messages about one article.
SPECIFICATION Spec
CONSTANTS
  i1 = i1
  m1 = m1
  m2 = m2
  m3 = m3
  None = None
  Item = {i1}
  Schema = {news, market}
  Message = {m1, m2}
  Worker = {w1, w2}
  ItemOf <- SameItem
  Unparsable = {}
  BadHash = {}
  MaxReceive = 2
  BatchSize = 1
  Recategorises = TRUE
SYMMETRY Symmetry
INVARIANTS
  IInv
  ExclusiveProcessing
  ChunksWithItems
  NeverStuckProcessing
  SingleDeliveryNeverLoses

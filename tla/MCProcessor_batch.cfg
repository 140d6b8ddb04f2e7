\* One invocation at a time, events of two records, three messages about one
\* article: one as it should be, one with a wrong hash, one that cannot be
\* parsed.  Partial batch failure, the refinement of the article store, and
\* the end of every message.
SPECIFICATION FairSpec
CONSTANTS
  i1 = i1
  m1 = m1
  m2 = m2
  m3 = m3
  None = None
  Item = {i1}
  Schema = {news}
  Message = {m1, m2, m3}
  Worker = {w1}
  ItemOf <- OneItem
  Unparsable = {m3}
  BadHash = {m2}
  MaxReceive = 2
  BatchSize = 2
  Recategorises = FALSE
PROPERTIES
  StoreSpec
  EveryMessageSettles
CHECK_DEADLOCK FALSE

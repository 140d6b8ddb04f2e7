\* The failed delivery that is taken for a duplicate when it is retried.
SPECIFICATION Spec
CONSTANTS
  i1 = i1
  m1 = m1
  m2 = m2
  m3 = m3
  None = None
  Item = {i1}
  Schema = {news}
  Message = {m1}
  Worker = {w1}
  ItemOf <- OneMessage
  Unparsable = {}
  BadHash = {}
  MaxReceive = 3
  BatchSize = 1
  Recategorises = FALSE
INVARIANT
  FailedMessagesReachDlq
CHECK_DEADLOCK FALSE

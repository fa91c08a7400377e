SPECIFICATION FairSpec
CONSTANTS
  a1 = a1  a2 = a2  b1 = b1  c1 = c1  d1 = d1
  a = a  b = b  c = c  d = d
  NoKey = NoKey
  Tasks <- UnevenTasks
  Keys <- FourKeys
  KeyOf <- UnevenKeyOf
  Capacity = 2
  PerKey = 1
  QueuePerKey = 2
INVARIANTS SlotsAccounted QueuesMatch WorkConserving NothingRemembered
PROPERTIES NoStarvation

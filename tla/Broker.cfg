CONSTANTS
  Client = {c1, c2}
  Channel = {h1, h2}
  Message = {m1, m2}
  PublishCap = 1
  UnsubCap = 1
  SubCap = 1
  ConsumersClose = TRUE
  MaxUnsubscribe = 1
SPECIFICATION FairSpec
INVARIANTS StopCloses DeliveredInOrder NoLateDelivery NoLoss
PROPERTIES CallsReturn UnsubscribeCloses

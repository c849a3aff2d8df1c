CONSTANTS
  l1 = l1  l2 = l2  l3 = l3
  Loads = {l1, l2, l3}
SPECIFICATION FairSpec
INVARIANTS CallbacksInOrder TaskAccounted
PROPERTIES QuietAfterStop EveryLoadEnds

SPECIFICATION SignalSpec
CONSTANTS
  Keys = {k1}
  Subscribers = {c1}
  MaxSignals = 3
  MaxStep = 1
  MaxDepth = 2
INVARIANT LogRetainsAll
